---- MODULE Spec2Model ----
(***************************************************************************)
(* A model of maflib's disk-backed Sorter (maflib/sorter.py), of its        *)
(* overlap iterators and AlleleOverlapType (maflib/overlap_iter.py) and of *)
(* its sort orders and their keys (maflib/sort_order.py).                  *)
(*                                                                         *)
(* Python's None is modelled as the empty sequence <<>> and a present      *)
(* value x as <<x>>.  A spill file is a flat sequence of integers: the     *)
(* frames (length, payload) written one after the other.                   *)
(***************************************************************************)
EXTENDS Integers, Sequences, FiniteSets, TLC

\* ------------------------------------------------------------------ bounds
\* the number of add() calls of one run
MaxAdds == 3
\* the largest max_objects_in_ram a Sorter is constructed with
MaxRam == 3
\* keys are the integers 0..MaxKey (0 is the key Python finds falsy)
MaxKey == 1
\* the number of close() calls of one run
MaxCloses == 2
\* the number of records in all the inputs of an overlap iterator together
MaxRecords == 3
\* the number of elements of the source of an enforcing iterator
MaxSource == 3
\* the length of the contig list a key is built with
MaxContigs == 2
\* the length of a list of alleles
MaxAlts == 2

VARIABLES
    \* ---- Sorter
    max_objects_in_ram, \* Sorter._max_objects_in_ram
    always_spill,       \* Sorter._always_spill
    stash,              \* Sorter._stash: max_objects_in_ram slots, <<>> is None
    objects_in_memory,  \* Sorter._objects_in_memory
    paths,              \* Sorter._paths
    fds,                \* Sorter._fds
    fs,                 \* the temporary files: contents, existence, descriptor
    phase,              \* where the caller is: adding, merging, memory, done
    iterators,          \* _MergingIterator._iterators: the _SortedIterators
    heap,               \* _MergingIterator._heap: indexes into iterators
    opened,             \* the paths the _MergingIterator was constructed with
    mem_idx,            \* the in-memory generator's loop index i
    mem_n,              \* the in-memory generator's range(objects_in_memory)
    added,              \* history: the records given to add(), in order
    out,                \* history: the records the iteration has yielded
    closes,             \* history: the outcome of each close() call, and
                        \* the spill files already gone when it was called
    \* ---- LocatableOverlapIterator
    inputs,             \* the input sequences given as iters
    by_barcodes,        \* LocatableOverlapIterator._by_barcodes
    fasta_index,        \* the contigs listed by the FASTA index (<<>>: no index)
    contigs,            \* the contigs argument (<<>>: none given)
    pulled,             \* per input: how many elements were pulled from it
    last_rec,           \* per input: _SortOrderEnforcingIterator._last_rec
    peek,               \* per input: PeekableIterator._peek
    ophase,             \* ready, stopped (StopIteration) or error (raised)
    clusters,           \* history: what each next() returned
    \* ---- SortOrderEnforcingIterator over a SortOrderChecker
    source,             \* the elements of the wrapped iterator
    sort_order,         \* the name of the sort order it enforces
    taken,              \* how many elements next(self._iter) has handed over
    last_record,        \* SortOrderChecker._last_record
    delivered,          \* history: the elements __next__ returned
    failed,             \* history: the elements at which __next__ raised
    estate,             \* the outcome of the latest __next__
    \* ---- sort keys
    key_type,           \* the key class: Coordinate or BarcodesAndCoordinate
    keyA, keyB, keyC,   \* keys of that class (a component <<>> is None)
    cmps,               \* the outcome of comparing them (<<>> before)
    key_record,         \* a record a key is built for
    key_contigs,        \* the contig list the key is built with
    built,              \* the outcome of building the key (<<>> before)
    \* ---- AlleleOverlapType
    overlap_type,       \* the member of the enumeration
    alts_base,          \* the list given as base
    alts_other,         \* the list given as other
    compared,           \* what the comparison method returned (<<>> before)
    \* ---- LocatableByAlleleOverlapIterator
    list_of_items,      \* LocatableByAlleleOverlapIterator._list_of_items
    other_iters,        \* LocatableByAlleleOverlapIterator._other_iters
    gphase,             \* ready, stopped (StopIteration) or error (raised)
    yielded             \* history: what each next() returned, and from
                        \* which cluster of the underlying iterator

svars == <<max_objects_in_ram, always_spill, stash, objects_in_memory, paths,
           fds, fs, phase, iterators, heap, opened, mem_idx, mem_n, added,
           out, closes>>

ovars == <<inputs, by_barcodes, fasta_index, contigs, pulled, last_rec, peek,
           ophase, clusters>>

evars == <<source, sort_order, taken, last_record, delivered, failed, estate>>

kvars == <<key_type, keyA, keyB, keyC, cmps, key_record, key_contigs, built>>

avars == <<overlap_type, alts_base, alts_other, compared>>

gvars == <<list_of_items, other_iters, gphase, yielded>>

vars == <<svars, ovars, evars, kvars, avars, gvars>>

\* what a step of one component leaves alone: the other components
NotSorter == <<ovars, evars, kvars, avars, gvars>>
NotOverlap == <<svars, evars, kvars, avars, gvars>>
NotEnforcer == <<svars, ovars, kvars, avars, gvars>>
NotKeys == <<svars, ovars, evars, avars, gvars>>
NotAlleles == <<svars, ovars, evars, kvars, gvars>>
NotByAllele == <<svars, evars, kvars, alts_base, alts_other, compared>>

\* ------------------------------------------------------ records and codec
\* A record of the caller's record type: its key, the number of the add()
\* call that brought it (tells records with equal keys apart), and the
\* truth value Python gives the object (False for 0, "", a MafRecord with
\* no columns).
Records(i) == [key : 0..MaxKey, id : {i}, truthy : BOOLEAN]

\* Sorter._key_func
key_func(r) == r.key

\* SorterCodec.encode: the record's fields as a payload
encode(r) == <<r.key, r.id, IF r.truthy THEN 1 ELSE 0>>

\* SorterCodec.decode(data, start, length)
decode(data, start, length) ==
    LET d == SubSeq(data, start + 1, start + length)
    IN  [key |-> d[1], id |-> d[2], truthy |-> d[3] = 1]

\* Python's truth value of a key (an int) and of an Optional
TruthyKey(k) == k # 0
TruthyOptKey(ok) == ok # <<>> /\ TruthyKey(ok[1])
TruthyOptRecord(ov) == ov # <<>> /\ ov[1].truthy

\* _SortEntry and _SortEntry.__lt__
SortEntry(k, d) == [key |-> k, data |-> d]
EntryLessReversed(a, b) == b.key < a.key
EntryLess(a, b) == a.key < b.key

\* sorted(): a stable sort that uses __lt__ only
RECURSIVE InsertEntry(_, _)
InsertEntry(s, e) ==
    IF s = <<>> THEN <<e>>
    ELSE IF EntryLess(e, Head(s)) THEN <<e>> \o s
    ELSE <<Head(s)>> \o InsertEntry(Tail(s), e)

RECURSIVE sorted(_)
sorted(s) ==
    IF s = <<>> THEN <<>>
    ELSE InsertEntry(sorted(SubSeq(s, 1, Len(s) - 1)), s[Len(s)])

\* Sorter.__sort_stash: the first n slots hold entries (s[i] = <<entry>>)
sort_stash(s, n) ==
    LET srt == sorted([i \in 1..n |-> s[i][1]])
    IN  [i \in 1..Len(s) |-> IF i <= n THEN <<srt[i]>> ELSE s[i]]

\* ------------------------------------------------------------ spill files
NewFile == [content |-> <<>>, exists |-> TRUE, fd_open |-> TRUE, locked |-> FALSE]

\* handle.write(struct.pack('i', len(data))); handle.write(memoryview(data))
WriteFrame(content, data) == content \o <<Len(data)>> \o data

RECURSIVE WriteFrames(_, _, _, _)
WriteFrames(content, s, i, n) ==
    IF i > n THEN content
    ELSE WriteFrames(WriteFrame(content, s[i][1].data), s, i + 1, n)

\* Sorter.__spill: the Sorter's fields after the call
SpillNoSort(s, n, f, p, d) ==
    IF n > 0
    THEN LET path == Len(f) + 1
         IN  [stash |-> [i \in 1..Len(s) |-> IF i <= n THEN <<>> ELSE s[i]],
              n |-> 0,
              fs |-> Append(f, [NewFile EXCEPT !.content = WriteFrames(<<>>, s, 1, n)]),
              paths |-> Append(p, path),
              fds |-> Append(d, path)]
    ELSE [stash |-> s, n |-> n, fs |-> f, paths |-> p, fds |-> d]

spill(s, n, f, p, d) ==
    IF n > 0
    THEN LET path == Len(f) + 1
             st == sort_stash(s, n)
         IN  [stash |-> [i \in 1..Len(s) |-> IF i <= n THEN <<>> ELSE st[i]],
              n |-> 0,
              fs |-> Append(f, [NewFile EXCEPT !.content = WriteFrames(<<>>, st, 1, n)]),
              paths |-> Append(p, path),
              fds |-> Append(d, path)]
    ELSE [stash |-> s, n |-> n, fs |-> f, paths |-> p, fds |-> d]

\* ------------------------------------------------------- _SortedIterator
\* _SortedIterator.__advance: read the next frame of the file, or close
advance(c, f) ==
    IF c.closed
    THEN [c EXCEPT !.next_value = <<>>, !.next_key = <<>>]
    ELSE LET content == f[c.path].content
         IN  IF c.off >= Len(content)
             THEN [c EXCEPT !.closed = TRUE, !.next_value = <<>>, !.next_key = <<>>]
             ELSE LET length == content[c.off + 1]
                      data == SubSeq(content, c.off + 2, c.off + 1 + length)
                      value == decode(data, 0, length)
                  IN  [c EXCEPT !.off = c.off + 1 + length,
                                !.next_value = <<value>>,
                                !.next_key = <<key_func(value)>>]

\* _SortedIterator.__init__
SortedIterator(path, f) ==
    advance([path |-> path, off |-> 0, next_value |-> <<>>, next_key |-> <<>>,
             closed |-> FALSE], f)

\* _SortedIterator.__lt__ on the iterators its[i] and its[j]
CursorLess(i, j, its) == its[i].next_key[1] < its[j].next_key[1]

\* ------------------------------------------------------------------ heapq
\* heapq._siftdown, positions counted from 0 as in the library
RECURSIVE SiftDownLoop(_, _, _, _, _)
SiftDownLoop(h, newitem, startpos, pos, its) ==
    IF pos > startpos
    THEN LET parentpos == (pos - 1) \div 2
             parent == h[parentpos + 1]
         IN  IF CursorLess(newitem, parent, its)
             THEN SiftDownLoop([h EXCEPT ![pos + 1] = parent], newitem,
                               startpos, parentpos, its)
             ELSE [h EXCEPT ![pos + 1] = newitem]
    ELSE [h EXCEPT ![pos + 1] = newitem]

siftdown(h, startpos, pos, its) == SiftDownLoop(h, h[pos + 1], startpos, pos, its)

\* heapq._siftup
RECURSIVE SiftUpLoop(_, _, _, _, _)
SiftUpLoop(h, newitem, startpos, pos, its) ==
    LET endpos == Len(h)
        childpos == 2 * pos + 1
    IN  IF childpos < endpos
        THEN LET rightpos == childpos + 1
                 c == IF rightpos < endpos
                         /\ ~CursorLess(h[childpos + 1], h[rightpos + 1], its)
                      THEN rightpos ELSE childpos
             IN  SiftUpLoop([h EXCEPT ![pos + 1] = h[c + 1]], newitem,
                            startpos, c, its)
        ELSE siftdown([h EXCEPT ![pos + 1] = newitem], startpos, pos, its)

siftup(h, pos, its) == SiftUpLoop(h, h[pos + 1], pos, pos, its)

\* heapq.heappush
heappushAppend(h, item, its) == Append(h, item)
heappush(h, item, its) == siftdown(Append(h, item), 0, Len(h), its)

\* heapq.heappop: the item popped and the heap left
heappop(h, its) ==
    LET lastelt == h[Len(h)]
        rest == SubSeq(h, 1, Len(h) - 1)
    IN  IF rest # <<>>
        THEN [item |-> rest[1], heap |-> siftup([rest EXCEPT ![1] = lastelt], 0, its)]
        ELSE [item |-> lastelt, heap |-> <<>>]

\* ------------------------------------------------------ _MergingIterator
\* _MergingIterator.__init__: one _SortedIterator per path, each pushed
RECURSIVE MergingIteratorFrom(_, _, _, _, _)
MergingIteratorFrom(i, p, f, its, h) ==
    IF i > Len(p) THEN [iterators |-> its, heap |-> h]
    ELSE LET its2 == Append(its, SortedIterator(p[i], f))
         IN  MergingIteratorFrom(i + 1, p, f, its2, heappush(h, Len(its2), its2))

MergingIterator(p, f) == MergingIteratorFrom(1, p, f, <<>>, <<>>)

\* _MergingIterator.__next__ (with _SortedIterator.__next__ inlined):
\* stop is StopIteration, entry the record returned
MergeNextAlwaysPush(its, h, f) ==
    LET popped == heappop(h, its)
        s == popped.item
        adv == [its EXCEPT ![s] = advance(its[s], f)]
    IN  [stop |-> FALSE, entry |-> its[s].next_value, iterators |-> adv,
         heap |-> IF adv[s].next_key # <<>> THEN heappush(popped.heap, s, adv)
                  ELSE popped.heap]

MergeNext(its, h, f) ==
    IF h = <<>>
    THEN \* self.close(); raise StopIteration
         [stop |-> TRUE, entry |-> <<>>, iterators |-> <<>>, heap |-> <<>>]
    ELSE LET popped == heappop(h, its)
             s == popped.item
         IN  IF ~TruthyOptRecord(its[s].next_value)
             THEN \* s_iter.next() raises StopIteration
                  [stop |-> TRUE, entry |-> <<>>, iterators |-> its,
                   heap |-> popped.heap]
             ELSE LET adv == [its EXCEPT ![s] = advance(its[s], f)]
                  IN  [stop |-> FALSE, entry |-> its[s].next_value,
                       iterators |-> adv,
                       heap |-> IF TruthyOptKey(adv[s].next_key)
                                THEN heappush(popped.heap, s, adv)
                                ELSE popped.heap]

\* ------------------------------------------------------------ Sorter.close
\* os.close(desc) and os.remove(path): the files after the call and the errno
\* of the OSError raised ("none" when the call returns)
os_close(f, desc) ==
    IF f[desc].fd_open
    THEN [fs |-> [f EXCEPT ![desc].fd_open = FALSE], errno |-> "none"]
    ELSE [fs |-> f, errno |-> "EBADF"]

os_remove(f, path) ==
    IF ~f[path].exists THEN [fs |-> f, errno |-> "ENOENT"]
    ELSE IF f[path].locked THEN [fs |-> f, errno |-> "EACCES"]
    ELSE [fs |-> [f EXCEPT ![path].exists = FALSE], errno |-> "none"]

\* Sorter.close: the loop over zip(self._paths, self._fds) from pair i on
RECURSIVE CloseStopAtMissing(_, _, _, _)
CloseStopAtMissing(i, f, p, d) ==
    IF i > Len(p) \/ i > Len(d) THEN [fs |-> f, result |-> "ok", errno |-> "none"]
    ELSE LET c == os_close(f, d[i])
             r == IF c.errno = "none" THEN os_remove(c.fs, p[i]) ELSE c
         IN  IF r.errno = "none" THEN CloseStopAtMissing(i + 1, r.fs, p, d)
             ELSE IF r.errno = "ENOENT" THEN [fs |-> r.fs, result |-> "ok", errno |-> "none"]
             ELSE [fs |-> r.fs, result |-> "raised", errno |-> r.errno]

RECURSIVE close(_, _, _, _)
close(i, f, p, d) ==
    IF i > Len(p) \/ i > Len(d) THEN [fs |-> f, result |-> "ok", errno |-> "none"]
    ELSE LET c == os_close(f, d[i])
             r == IF c.errno = "none" THEN os_remove(c.fs, p[i]) ELSE c
         IN  IF r.errno # "none" /\ r.errno # "ENOENT"
             THEN [fs |-> r.fs, result |-> "raised", errno |-> r.errno]
             ELSE close(i + 1, r.fs, p, d)

\* ------------------------------------------------------------- the Sorter
\* Sorter.__iter__'s test: merge the spill files, or sort in memory
UsesMergeOnlyIfSpilled(p, always) == p # <<>>
UsesMergeAlways(p, always) == TRUE
UsesMerge(p, always) == p # <<>> \/ always

\* the overlap iterator is not part of a Sorter run
OverlapIdle ==
    /\ inputs = <<>>
    /\ by_barcodes = FALSE
    /\ fasta_index = <<>>
    /\ contigs = <<>>
    /\ pulled = <<>>
    /\ last_rec = <<>>
    /\ peek = <<>>
    /\ ophase = "idle"
    /\ clusters = <<>>

\* no enforcing iterator is part of the run
EnforcerIdle ==
    /\ source = <<>>
    /\ sort_order = "none"
    /\ taken = 0
    /\ last_record = <<>>
    /\ delivered = <<>>
    /\ failed = <<>>
    /\ estate = "idle"

\* no key is compared or built in the run
KeysIdle ==
    /\ key_type = "none"
    /\ keyA = <<>>
    /\ keyB = <<>>
    /\ keyC = <<>>
    /\ cmps = <<>>
    /\ key_record = <<>>
    /\ key_contigs = <<>>
    /\ built = <<>>

\* no list of alleles is compared in the run
AllelesIdle ==
    /\ overlap_type = "none"
    /\ alts_base = <<>>
    /\ alts_other = <<>>
    /\ compared = <<>>

\* no LocatableByAlleleOverlapIterator is part of the run
ByAlleleIdle ==
    /\ list_of_items = <<>>
    /\ other_iters = <<>>
    /\ gphase = "idle"
    /\ yielded = <<>>

InitSorter ==
    /\ OverlapIdle
    /\ EnforcerIdle
    /\ KeysIdle
    /\ AllelesIdle
    /\ ByAlleleIdle
    /\ max_objects_in_ram \in 1..MaxRam
    /\ always_spill \in BOOLEAN
    /\ stash = [i \in 1..max_objects_in_ram |-> <<>>]
    /\ objects_in_memory = 0
    /\ paths = <<>>
    /\ fds = <<>>
    /\ fs = <<>>
    /\ phase = "adding"
    /\ iterators = <<>>
    /\ heap = <<>>
    /\ opened = <<>>
    /\ mem_idx = 0
    /\ mem_n = 0
    /\ added = <<>>
    /\ out = <<>>
    /\ closes = <<>>

\* Sorter.add(obj)
add(obj) ==
    /\ phase = "adding"
    /\ closes = <<>>
    /\ Len(added) < MaxAdds
    /\   LET entry == SortEntry(key_func(obj), encode(obj))
             st == [stash EXCEPT ![objects_in_memory + 1] = <<entry>>]
             n == objects_in_memory + 1
             sp == IF n = max_objects_in_ram THEN spill(st, n, fs, paths, fds)
                   ELSE [stash |-> st, n |-> n, fs |-> fs, paths |-> paths, fds |-> fds]
         IN  /\ stash' = sp.stash
             /\ objects_in_memory' = sp.n
             /\ fs' = sp.fs
             /\ paths' = sp.paths
             /\ fds' = sp.fds
             /\ added' = Append(added, obj)
    /\ UNCHANGED NotSorter
    /\ UNCHANGED <<max_objects_in_ram, always_spill, phase, iterators, heap,
                   opened, mem_idx, mem_n, out, closes>>

\* add() of any record of the record type
Add == \E obj \in Records(Len(added) + 1) : add(obj)

\* add() of a record that Python finds true and whose key it finds true
AddTruthy ==
    \E obj \in Records(Len(added) + 1) :
        obj.truthy /\ TruthyKey(key_func(obj)) /\ add(obj)

\* The first next() on iter(sorter): Sorter.__iter__ up to its first yield
IterFirst ==
    /\ phase = "adding"
    /\ closes = <<>>
    /\ IF UsesMerge(paths, always_spill)
       THEN LET sp == spill(stash, objects_in_memory, fs, paths, fds)
                m == MergingIterator(sp.paths, sp.fs)
                nx == MergeNext(m.iterators, m.heap, sp.fs)
            IN  /\ stash' = sp.stash
                /\ objects_in_memory' = sp.n
                /\ fs' = sp.fs
                /\ paths' = sp.paths
                /\ fds' = sp.fds
                /\ opened' = sp.paths
                /\ iterators' = nx.iterators
                /\ heap' = nx.heap
                /\ out' = IF nx.stop THEN out ELSE Append(out, nx.entry[1])
                /\ phase' = IF nx.stop THEN "done" ELSE "merging"
                /\ UNCHANGED <<mem_idx, mem_n>>
       ELSE LET st == sort_stash(stash, objects_in_memory)
            IN  /\ stash' = st
                /\ mem_n' = objects_in_memory
                /\ IF objects_in_memory > 0
                   THEN /\ out' = Append(out, decode(st[1][1].data, 0, Len(st[1][1].data)))
                        /\ mem_idx' = 0
                        /\ phase' = "memory"
                   ELSE /\ out' = out
                        /\ mem_idx' = mem_idx
                        /\ phase' = "done"
                /\ UNCHANGED <<objects_in_memory, fs, paths, fds, opened,
                               iterators, heap>>
    /\ UNCHANGED NotSorter
    /\ UNCHANGED <<max_objects_in_ram, always_spill, added, closes>>

\* A later next(): resume after "yield record" in the merge loop
IterNextMerge ==
    /\ phase = "merging"
    /\ LET nx == MergeNext(iterators, heap, fs)
       IN  /\ iterators' = nx.iterators
           /\ heap' = nx.heap
           /\ out' = IF nx.stop THEN out ELSE Append(out, nx.entry[1])
           /\ phase' = IF nx.stop THEN "done" ELSE "merging"
    /\ UNCHANGED NotSorter
    /\ UNCHANGED <<max_objects_in_ram, always_spill, stash, objects_in_memory,
                   paths, fds, fs, opened, mem_idx, mem_n, added, closes>>

\* A later next(): resume after "yield decode(i)" in the in-memory loop
IterNextMemory ==
    /\ phase = "memory"
    /\ IF mem_idx + 1 < mem_n
       THEN LET entry == stash[mem_idx + 2][1]
            IN  /\ out' = Append(out, decode(entry.data, 0, Len(entry.data)))
                /\ mem_idx' = mem_idx + 1
                /\ phase' = "memory"
       ELSE /\ out' = out
            /\ mem_idx' = mem_idx
            /\ phase' = "done"
    /\ UNCHANGED NotSorter
    /\ UNCHANGED <<max_objects_in_ram, always_spill, stash, objects_in_memory,
                   paths, fds, fs, iterators, heap, opened, mem_n, added, closes>>

\* Sorter.close(), before iterating or once the iteration has ended
Close ==
    /\ phase \in {"adding", "done"}
    /\ Len(closes) < MaxCloses
    /\ LET r == close(1, fs, paths, fds)
       IN  /\ fs' = r.fs
           /\ closes' = Append(closes,
                  [result |-> r.result, errno |-> r.errno,
                   missing |-> {i \in 1..Len(paths) : ~fs[paths[i]].exists}])
    /\ UNCHANGED NotSorter
    /\ UNCHANGED <<max_objects_in_ram, always_spill, stash, objects_in_memory,
                   paths, fds, phase, iterators, heap, opened, mem_idx, mem_n,
                   added, out>>

\* The environment: someone else removes a spill file the iteration is done with
FileRemovedElsewhere ==
    /\ phase = "done"
    /\ \E p \in 1..Len(fs) :
         /\ fs[p].exists
         /\ fs' = [fs EXCEPT ![p].exists = FALSE]
    /\ UNCHANGED NotSorter
    /\ UNCHANGED <<max_objects_in_ram, always_spill, stash, objects_in_memory,
                   paths, fds, phase, iterators, heap, opened, mem_idx, mem_n,
                   added, out, closes>>

\* The environment: a spill file becomes undeletable (its directory read-only)
FileLocked ==
    /\ phase = "done"
    /\ \E p \in 1..Len(fs) :
         /\ fs[p].exists
         /\ ~fs[p].locked
         /\ fs' = [fs EXCEPT ![p].locked = TRUE]
    /\ UNCHANGED NotSorter
    /\ UNCHANGED <<max_objects_in_ram, always_spill, stash, objects_in_memory,
                   paths, fds, phase, iterators, heap, opened, mem_idx, mem_n,
                   added, out, closes>>

\* the runs that add records of any kind and iterate
NextSorter ==
    \/ Add
    \/ IterFirst
    \/ IterNextMerge
    \/ IterNextMemory

SpecSorter == InitSorter /\ [][NextSorter]_vars

\* the runs in which every record and every key is one Python finds true, with
\* close() calls and an environment that removes or locks spill files
NextSorterTruthy ==
    \/ AddTruthy
    \/ IterFirst
    \/ IterNextMerge
    \/ IterNextMemory
    \/ Close
    \/ FileRemovedElsewhere
    \/ FileLocked

SpecSorterTruthy == InitSorter /\ [][NextSorterTruthy]_vars

\* =================================================== LocatableOverlapIterator
\* chromosome names and barcodes, each an integer standing for a string in
\* the order Python compares strings
Chromosomes == {1, 2}
BarcodePairs == {<<1, 1>>, <<1, 2>>, <<2, 1>>}
\* how many input iterators an overlap iterator is given
IterCounts == {0, 1, 2}
\* the positions on a chromosome
Positions == 1..2

\* the records of the inputs: Locatables, closed intervals [start, end], that
\* also carry the two barcode columns
Locatables ==
    {r \in [chromosome : Chromosomes, start : Positions, end : Positions,
            tumor_barcode : {b[1] : b \in BarcodePairs},
            normal_barcode : {b[2] : b \in BarcodePairs}] :
        r.start <= r.end /\ <<r.tumor_barcode, r.normal_barcode>> \in BarcodePairs}

\* SortOrderKey.compare, for values that are present
compare(this, that) ==
    (IF this > that THEN 1 ELSE 0) - (IF this < that THEN 1 ELSE 0)

\* Coordinate.__init__: the contigs the sort order ranks chromosomes by
CoordinateContigs(fai, cts) == IF fai # <<>> THEN fai ELSE cts

\* LocatableOverlapIterator.__init__: the contigs of its sort order
SortOrderContigs(bb, fai, cts) ==
    IF ~bb THEN CoordinateContigs(fai, <<>>) ELSE CoordinateContigs(fai, cts)

\* contigs.index(chromosome)
IndexOf(cts, c) == CHOOSE i \in 1..Len(cts) : cts[i] = c /\ \A j \in 1..(i - 1) : cts[j] # c

\* _CoordinateKey.__init__ and _BarcodesAndCoordinateKey.__init__: the key of
\* a record under the iterator's sort order
sort_key(rec, bb, cts) ==
    LET chromosome == IF cts # <<>> THEN IndexOf(cts, rec.chromosome) - 1
                      ELSE rec.chromosome
    IN  IF bb
        THEN [tumor_barcode |-> rec.tumor_barcode,
              normal_barcode |-> rec.normal_barcode,
              chromosome |-> chromosome, start |-> rec.start, end |-> rec.end]
        ELSE [chromosome |-> chromosome, start |-> rec.start, end |-> rec.end]

\* _CoordinateKey.__cmp__
CoordinateCmp(a, b) ==
    LET d1 == compare(a.chromosome, b.chromosome)
        d2 == IF d1 = 0 THEN compare(a.start, b.start) ELSE d1
    IN  IF d2 = 0 THEN compare(a.end, b.end) ELSE d2

\* _BarcodesAndCoordinateKey.__cmp__
BarcodesAndCoordinateCmp(a, b) ==
    LET d1 == compare(a.tumor_barcode, b.tumor_barcode)
        d2 == IF d1 = 0 THEN compare(a.normal_barcode, b.normal_barcode) ELSE d1
    IN  IF d2 = 0 THEN CoordinateCmp(a, b) ELSE d2

\* SortOrderKey.__lt__ for the keys of the iterator's sort order
KeyLess(a, b, bb) ==
    IF bb THEN BarcodesAndCoordinateCmp(a, b) < 0 ELSE CoordinateCmp(a, b) < 0

\* LocatableOverlapIterator.__overlaps
OverlapsAnyChromosome(min_key, cur_key) ==
    min_key.start <= cur_key.start /\ cur_key.start <= min_key.end
OverlapsAfterStart(min_key, cur_key) ==
    /\ min_key.chromosome = cur_key.chromosome
    /\ min_key.start < cur_key.start /\ cur_key.start <= min_key.end
overlaps(min_key, cur_key) ==
    /\ min_key.chromosome = cur_key.chromosome
    /\ min_key.start <= cur_key.start /\ cur_key.start <= min_key.end

\* LocatableOverlapIterator.__overlaps_with_barcode
overlaps_with_barcode(min_key, cur_key) ==
    /\ min_key.tumor_barcode = cur_key.tumor_barcode
    /\ min_key.normal_barcode = cur_key.normal_barcode
    /\ overlaps(min_key, cur_key)

\* LocatableOverlapIterator._overlap_f
OverlapIgnoringBarcodes(min_key, cur_key, bb) == overlaps(min_key, cur_key)
overlap_f(min_key, cur_key, bb) ==
    IF bb THEN overlaps_with_barcode(min_key, cur_key) ELSE overlaps(min_key, cur_key)

\* The iterators of one LocatableOverlapIterator: per input the number of
\* elements pulled from it, the enforcing iterator's _last_rec, the peekable
\* iterator's _peek, and whether a pull raised "Records out of order".
\* PeekableIterator.__update_peek over _SortOrderEnforcingIterator.__next__
UpdatePeekReadsAhead(it, i, ins, bb, cts) ==
    IF it.pulled[i] >= Len(ins[i])
    THEN [it EXCEPT !.peek[i] = <<>>]
    ELSE LET rec == ins[i][it.pulled[i] + 1]
         IN  [it EXCEPT !.pulled[i] = IF @ + 2 <= Len(ins[i]) THEN @ + 2 ELSE @ + 1,
                        !.last_rec[i] = <<rec>>, !.peek[i] = <<rec>>]

UpdatePeekUnchecked(it, i, ins, bb, cts) ==
    IF it.pulled[i] >= Len(ins[i])
    THEN [it EXCEPT !.peek[i] = <<>>]
    ELSE LET rec == ins[i][it.pulled[i] + 1]
         IN  [it EXCEPT !.pulled[i] = it.pulled[i] + 1,
                        !.last_rec[i] = <<rec>>, !.peek[i] = <<rec>>]

update_peek(it, i, ins, bb, cts) ==
    IF it.pulled[i] >= Len(ins[i])
    THEN \* next(self._iter, None): the input is exhausted
         [it EXCEPT !.peek[i] = <<>>]
    ELSE LET rec == ins[i][it.pulled[i] + 1]
             got == [it EXCEPT !.pulled[i] = it.pulled[i] + 1]
         IN  IF /\ it.last_rec[i] # <<>>
                /\ KeyLess(sort_key(rec, bb, cts), sort_key(it.last_rec[i][1], bb, cts), bb)
             THEN [got EXCEPT !.raised = TRUE]
             ELSE [got EXCEPT !.last_rec[i] = <<rec>>, !.peek[i] = <<rec>>]

\* LocatableOverlapIterator.__init__: each input wrapped and peeked, in order
RECURSIVE WrapIters(_, _, _, _, _)
WrapIters(it, i, ins, bb, cts) ==
    IF i > Len(ins) \/ it.raised THEN it
    ELSE WrapIters(update_peek(it, i, ins, bb, cts), i + 1, ins, bb, cts)

\* LocatableOverlapIterator.__to_sort_key on every _iter.peek()
PeekKeys(pk, bb, cts) ==
    [i \in 1..Len(pk) |-> IF pk[i] # <<>> THEN <<sort_key(pk[i][1], bb, cts)>> ELSE <<>>]

\* min([k for k in keys if k]): the index of the first smallest present key
RECURSIVE MinFrom(_, _, _, _)
MinFrom(keys, i, best, bb) ==
    IF i > Len(keys) THEN best
    ELSE IF keys[i] = <<>> THEN MinFrom(keys, i + 1, best, bb)
    ELSE IF best = 0 \/ KeyLess(keys[i][1], keys[best][1], bb)
         THEN MinFrom(keys, i + 1, i, bb)
         ELSE MinFrom(keys, i + 1, best, bb)

FirstPresentIndex(keys, bb) == CHOOSE i \in 1..Len(keys) :
    keys[i] # <<>> /\ \A j \in 1..(i - 1) : keys[j] = <<>>
MinIndex(keys, bb) == MinFrom(keys, 1, 0, bb)

\* The state of one __next__ call: the iterators (it), keys, the minimum key
\* object (min_key; keys[alias] is that same object while alias # 0),
\* records, added.
\* The body of "for i, _iter in enumerate(self._iters)" for input i
Visit(st, i, ins, bb, cts) ==
    IF st.it.peek[i] = <<>> THEN st
    ELSE LET key == IF st.keys[i] = <<>> THEN sort_key(st.it.peek[i][1], bb, cts)
                    ELSE IF st.alias = i THEN st.min_key
                    ELSE st.keys[i][1]
         IN  IF overlap_f(st.min_key, key, bb)
             THEN LET it2 == update_peek(st.it, i, ins, bb, cts)
                  IN  IF it2.raised
                      THEN \* next(_iter) raised: __next__ is left at once
                           [st EXCEPT !.it = it2]
                      ELSE [st EXCEPT
                              !.it = it2,
                              !.records[i] = Append(st.records[i], st.it.peek[i][1]),
                              !.min_key.end = IF st.min_key.end < key.end
                                              THEN key.end ELSE st.min_key.end,
                              !.added = TRUE,
                              !.keys[i] = <<>>,
                              !.alias = IF st.alias = i THEN 0 ELSE st.alias]
             ELSE [st EXCEPT !.keys[i] = <<key>>]

\* one pass of the for loop, from input i on
RECURSIVE Pass(_, _, _, _, _)
Pass(st, i, ins, bb, cts) ==
    IF i > Len(ins) \/ st.it.raised THEN st
    ELSE Pass(Visit(st, i, ins, bb, cts), i + 1, ins, bb, cts)

\* the number of records in the lists of records
RECURSIVE TotalLen(_)
TotalLen(records) ==
    IF records = <<>> THEN 0 ELSE Len(Head(records)) + TotalLen(Tail(records))

\* one turn of "while added": a pass, and (history) how many records it took
WhileTurn(st, ins, bb, cts) ==
    LET nxt == Pass([st EXCEPT !.added = FALSE], 1, ins, bb, cts)
    IN  [nxt EXCEPT !.passes = Append(@, TotalLen(nxt.records) - TotalLen(st.records))]

\* "while added": passes until one adds nothing
SinglePass(st, ins, bb, cts) == WhileTurn(st, ins, bb, cts)

RECURSIVE Passes(_, _, _, _)
Passes(st, ins, bb, cts) ==
    IF ~st.added \/ st.it.raised THEN st
    ELSE Passes(WhileTurn(st, ins, bb, cts), ins, bb, cts)

\* "next(iter([k for k in keys if k]))" raises StopIteration: no key is present
FirstExhausted(pk) == IF pk = <<>> THEN TRUE ELSE pk[1] = <<>>
AllExhausted(pk) == \A i \in 1..Len(pk) : pk[i] = <<>>

\* LocatableOverlapIterator.__next__ once some key is present
next_cluster(it, ins, bb, cts) ==
    LET keys == PeekKeys(it.peek, bb, cts)
        m == MinIndex(keys, bb)
    IN  Passes([it |-> it, keys |-> keys, min_key |-> keys[m][1], alias |-> m,
                first_key |-> keys[m][1], passes |-> <<>>,
                records |-> [i \in 1..Len(ins) |-> <<>>], added |-> TRUE],
               ins, bb, cts)

\* a sequence of records an input may hold: sorted under the sort order
IsSorted(s, bb, cts) ==
    \A i \in 1..(Len(s) - 1) :
        ~KeyLess(sort_key(s[i + 1], bb, cts), sort_key(s[i], bb, cts), bb)

\* with by_barcodes off no code reads the barcode columns: the records of
\* those runs all carry one barcode pair
InputLocatables(bb) ==
    IF bb THEN Locatables
    ELSE {r \in Locatables : \A q \in Locatables :
            r.tumor_barcode <= q.tumor_barcode /\ r.normal_barcode <= q.normal_barcode}

RECURSIVE SortedSeqs(_, _, _)
SortedSeqs(n, bb, cts) ==
    IF n = 0 THEN {<<>>}
    ELSE {Append(s[1], s[2]) : s \in
            {x \in SortedSeqs(n - 1, bb, cts) \X InputLocatables(bb) :
                IsSorted(Append(x[1], x[2]), bb, cts)}}

\* the contig lists an overlap iterator is constructed with (<<>>: none)
ContigSettings == {<<>>}

\* the sorted sequences of at most k records, per by_barcodes and contigs
SortedUpTo ==
    [bb \in BOOLEAN, cts \in ContigSettings, k \in 0..MaxRecords |->
        UNION {SortedSeqs(n, bb, cts) : n \in 0..k}]

TotalRecords == MaxRecords
\* the calls of next() are capped: no cluster is empty, so a run makes at most
\* one call per record and one more
MaxCalls == TotalRecords + 1

\* the Sorter is not part of an overlap iterator's run
SorterIdle ==
    /\ max_objects_in_ram = 1
    /\ always_spill = FALSE
    /\ stash = <<>>
    /\ objects_in_memory = 0
    /\ paths = <<>>
    /\ fds = <<>>
    /\ fs = <<>>
    /\ phase = "idle"
    /\ iterators = <<>>
    /\ heap = <<>>
    /\ opened = <<>>
    /\ mem_idx = 0
    /\ mem_n = 0
    /\ added = <<>>
    /\ out = <<>>
    /\ closes = <<>>

\* LocatableOverlapIterator.__init__ over sorted inputs
InitOverlap ==
    /\ SorterIdle
    /\ EnforcerIdle
    /\ KeysIdle
    /\ AllelesIdle
    /\ ByAlleleIdle
    /\ by_barcodes \in BOOLEAN
    /\ fasta_index = <<>>
    /\ contigs \in ContigSettings
    /\ \E n \in IterCounts :
         LET cts == SortOrderContigs(by_barcodes, fasta_index, contigs)
         IN  \/ n = 0 /\ inputs = <<>>
             \/ n = 1 /\ \E a \in SortedUpTo[by_barcodes, cts, MaxRecords] :
                            inputs = <<a>>
             \/ n = 2 /\ \E a \in SortedUpTo[by_barcodes, cts, MaxRecords] :
                            \E b \in SortedUpTo[by_barcodes, cts, MaxRecords - Len(a)] :
                                inputs = <<a, b>>
    /\ LET it == WrapIters([pulled |-> [i \in 1..Len(inputs) |-> 0],
                            last_rec |-> [i \in 1..Len(inputs) |-> <<>>],
                            peek |-> [i \in 1..Len(inputs) |-> <<>>],
                            raised |-> FALSE],
                           1, inputs, by_barcodes,
                           SortOrderContigs(by_barcodes, fasta_index, contigs))
       IN  /\ pulled = it.pulled
           /\ last_rec = it.last_rec
           /\ peek = it.peek
           /\ ophase = IF it.raised THEN "error" ELSE "ready"
    /\ clusters = <<>>

\* next() returns a cluster
NextCluster ==
    /\ ophase = "ready"
    /\ Len(clusters) < MaxCalls
    /\ ~AllExhausted(peek)
    /\ LET cts == SortOrderContigs(by_barcodes, fasta_index, contigs)
           st == next_cluster([pulled |-> pulled, last_rec |-> last_rec,
                               peek |-> peek, raised |-> FALSE],
                              inputs, by_barcodes, cts)
       IN  /\ pulled' = st.it.pulled
           /\ last_rec' = st.it.last_rec
           /\ peek' = st.it.peek
           /\ ophase' = IF st.it.raised THEN "error" ELSE "ready"
           /\ clusters' = IF st.it.raised THEN clusters
                          ELSE Append(clusters, [records |-> st.records,
                                                 min_key |-> st.first_key,
                                                 end |-> st.min_key.end,
                                                 passes |-> st.passes])
    /\ UNCHANGED <<inputs, by_barcodes, fasta_index, contigs>>
    /\ UNCHANGED NotOverlap

\* next() raises StopIteration: no input has an element left
NextStop ==
    /\ ophase = "ready"
    /\ AllExhausted(peek)
    /\ ophase' = "stopped"
    /\ UNCHANGED <<inputs, by_barcodes, fasta_index, contigs, pulled, last_rec,
                   peek, clusters>>
    /\ UNCHANGED NotOverlap

NextOverlap ==
    \/ NextCluster
    \/ NextStop

SpecOverlap == InitOverlap /\ [][NextOverlap]_vars

\* ------------------------------------- overlap iterator, any barcodes
\* The runs in which the records carry any barcode pair, with by_barcodes on
\* or off: each input is sorted under the iterator's own sort order.
\* These runs keep to one chromosome: records on different chromosomes never
\* overlap, whatever their barcodes.
MixedLocatables == {r \in Locatables : \A c \in Chromosomes : r.chromosome <= c}

RECURSIVE MixedSortedSeqs(_, _, _)
MixedSortedSeqs(n, bb, cts) ==
    IF n = 0 THEN {<<>>}
    ELSE {Append(s[1], s[2]) : s \in
            {x \in MixedSortedSeqs(n - 1, bb, cts) \X MixedLocatables :
                IsSorted(Append(x[1], x[2]), bb, cts)}}

MixedSortedUpTo ==
    [bb \in BOOLEAN, k \in 0..MaxRecords |->
        UNION {MixedSortedSeqs(n, bb, <<>>) : n \in 0..k}]

\* LocatableOverlapIterator.__init__ over sorted inputs of any barcodes
InitOverlapMixed ==
    /\ SorterIdle
    /\ EnforcerIdle
    /\ KeysIdle
    /\ AllelesIdle
    /\ ByAlleleIdle
    /\ by_barcodes \in BOOLEAN
    /\ fasta_index = <<>>
    /\ contigs = <<>>
    /\ \E n \in IterCounts :
         \/ n = 0 /\ inputs = <<>>
         \/ n = 1 /\ \E a \in MixedSortedUpTo[by_barcodes, MaxRecords] :
                        inputs = <<a>>
         \/ n = 2 /\ \E a \in MixedSortedUpTo[by_barcodes, MaxRecords] :
                        \E b \in MixedSortedUpTo[by_barcodes, MaxRecords - Len(a)] :
                            inputs = <<a, b>>
    /\ LET it == WrapIters([pulled |-> [i \in 1..Len(inputs) |-> 0],
                            last_rec |-> [i \in 1..Len(inputs) |-> <<>>],
                            peek |-> [i \in 1..Len(inputs) |-> <<>>],
                            raised |-> FALSE],
                           1, inputs, by_barcodes,
                           SortOrderContigs(by_barcodes, fasta_index, contigs))
       IN  /\ pulled = it.pulled
           /\ last_rec = it.last_rec
           /\ peek = it.peek
           /\ ophase = IF it.raised THEN "error" ELSE "ready"
    /\ clusters = <<>>

SpecOverlapMixed == InitOverlapMixed /\ [][NextOverlap]_vars

\* ------------------------------- overlap iterator, chromosome ordering
\* The chromosome-ordering configurations an iterator is constructed with: no
\* configuration, a contig list, or a FASTA index (modelled as the contigs
\* its lines list); the list ranks chromosome 2 before chromosome 1.
ReversedContigs == <<2, 1>>
ContigConfigs ==
    {[fasta_index |-> <<>>, contigs |-> <<>>],
     [fasta_index |-> <<>>, contigs |-> ReversedContigs],
     [fasta_index |-> ReversedContigs, contigs |-> <<>>]}

\* the inputs sorted under the ranking that the configuration gives
ConfiguredSortedUpTo ==
    [bb \in BOOLEAN, cts \in {<<>>, ReversedContigs}, k \in 0..MaxRecords |->
        UNION {{q \in [1..n -> InputLocatables(FALSE)] : IsSorted(q, bb, cts)} :
                 n \in 0..k}]

\* LocatableOverlapIterator.__init__ with a chromosome-ordering configuration,
\* over inputs sorted under the configured ranking
InitOverlapContigs ==
    /\ SorterIdle
    /\ EnforcerIdle
    /\ KeysIdle
    /\ AllelesIdle
    /\ ByAlleleIdle
    /\ by_barcodes \in BOOLEAN
    /\ \E cfg \in ContigConfigs :
         /\ fasta_index = cfg.fasta_index
         /\ contigs = cfg.contigs
    /\ \E n \in IterCounts :
         LET cts == CoordinateContigs(fasta_index, contigs)
         IN  \/ n = 0 /\ inputs = <<>>
             \/ n = 1 /\ \E a \in ConfiguredSortedUpTo[by_barcodes, cts, MaxRecords] :
                            inputs = <<a>>
             \/ n = 2 /\ \E a \in ConfiguredSortedUpTo[by_barcodes, cts, MaxRecords] :
                            \E b \in ConfiguredSortedUpTo[by_barcodes, cts, MaxRecords - Len(a)] :
                                inputs = <<a, b>>
    /\ LET it == WrapIters([pulled |-> [i \in 1..Len(inputs) |-> 0],
                            last_rec |-> [i \in 1..Len(inputs) |-> <<>>],
                            peek |-> [i \in 1..Len(inputs) |-> <<>>],
                            raised |-> FALSE],
                           1, inputs, by_barcodes,
                           SortOrderContigs(by_barcodes, fasta_index, contigs))
       IN  /\ pulled = it.pulled
           /\ last_rec = it.last_rec
           /\ peek = it.peek
           /\ ophase = IF it.raised THEN "error" ELSE "ready"
    /\ clusters = <<>>

SpecOverlapContigs == InitOverlapContigs /\ [][NextOverlap]_vars

\* ----------------------------------- overlap iterator, inputs in any order
\* The runs in which an input need not be sorted: each input is any sequence
\* of records (of one barcode pair).
AnyOrderUpTo ==
    [k \in 0..MaxRecords |-> UNION {[1..n -> InputLocatables(FALSE)] : n \in 0..k}]

\* LocatableOverlapIterator.__init__ over inputs in any order
InitOverlapUnsorted ==
    /\ SorterIdle
    /\ EnforcerIdle
    /\ KeysIdle
    /\ AllelesIdle
    /\ ByAlleleIdle
    /\ by_barcodes \in BOOLEAN
    /\ fasta_index = <<>>
    /\ contigs = <<>>
    /\ \E n \in IterCounts :
         \/ n = 0 /\ inputs = <<>>
         \/ n = 1 /\ \E a \in AnyOrderUpTo[MaxRecords] : inputs = <<a>>
         \/ n = 2 /\ \E a \in AnyOrderUpTo[MaxRecords] :
                        \E b \in AnyOrderUpTo[MaxRecords - Len(a)] :
                            inputs = <<a, b>>
    /\ LET it == WrapIters([pulled |-> [i \in 1..Len(inputs) |-> 0],
                            last_rec |-> [i \in 1..Len(inputs) |-> <<>>],
                            peek |-> [i \in 1..Len(inputs) |-> <<>>],
                            raised |-> FALSE],
                           1, inputs, by_barcodes,
                           SortOrderContigs(by_barcodes, fasta_index, contigs))
       IN  /\ pulled = it.pulled
           /\ last_rec = it.last_rec
           /\ peek = it.peek
           /\ ophase = IF it.raised THEN "error" ELSE "ready"
    /\ clusters = <<>>

SpecOverlapUnsorted == InitOverlapUnsorted /\ [][NextOverlap]_vars

\* ============================================= SortOrderEnforcingIterator
\* SortOrder.all(): the names of the sort orders
SortOrders == {"Unknown", "Unsorted", "BarcodesAndCoordinate", "Coordinate"}

\* SortOrderChecker.__init__: sort_key() of Unknown and of Unsorted raises
\* NotImplementedError and leaves _sort_f None
EveryOrderHasKey(order) == TRUE
HasSortKey(order) == order \in {"Coordinate", "BarcodesAndCoordinate"}

\* self._sort_f(record), for an order that has a key (no contig list)
sort_f(order, record) == sort_key(record, order = "BarcodesAndCoordinate", <<>>)

\* SortOrderChecker.__iadd__: the test that raises "Records out of order"
OutOfOrderOrEqual(order, last, record) ==
    /\ last # <<>>
    /\ HasSortKey(order)
    /\ ~KeyLess(sort_f(order, last[1]), sort_f(order, record),
                order = "BarcodesAndCoordinate")
OutOfOrder(order, last, record) ==
    /\ last # <<>>
    /\ HasSortKey(order)
    /\ KeyLess(sort_f(order, record), sort_f(order, last[1]),
               order = "BarcodesAndCoordinate")

\* next(self._iter): the element handed over and the source's new position
NextOfSourceSkipping(src, n) ==
    [record |-> src[n + 1], taken |-> IF n + 2 <= Len(src) THEN n + 2 ELSE n + 1]
NextOfSource(src, n) == [record |-> src[n + 1], taken |-> n + 1]

\* the elements of a wrapped source: any records, in any order
SourceRecords(order) ==
    IF order = "BarcodesAndCoordinate" THEN MixedLocatables
    ELSE InputLocatables(FALSE)

Sources(order) ==
    UNION {[1..n -> SourceRecords(order)] : n \in 0..MaxSource}

\* SortOrderEnforcingIterator.__init__ and SortOrderChecker.__init__
InitEnforcer ==
    /\ SorterIdle
    /\ OverlapIdle
    /\ KeysIdle
    /\ AllelesIdle
    /\ ByAlleleIdle
    /\ sort_order \in SortOrders
    /\ source \in Sources(sort_order)
    /\ taken = 0
    /\ last_record = <<>>
    /\ delivered = <<>>
    /\ failed = <<>>
    /\ estate = "ready"

\* SortOrderEnforcingIterator.__next__ while the source has an element:
\* record = next(self._iter); self._checker.add(record); return record
EnforcerNext ==
    /\ estate # "idle"
    /\ taken < Len(source)
    /\ LET nx == NextOfSource(source, taken)
       IN  /\ taken' = nx.taken
           /\ IF OutOfOrder(sort_order, last_record, nx.record)
              THEN /\ failed' = Append(failed, taken + 1)
                   /\ estate' = "raised"
                   /\ UNCHANGED <<last_record, delivered>>
              ELSE /\ last_record' = <<nx.record>>
                   /\ delivered' = Append(delivered, nx.record)
                   /\ estate' = "returned"
                   /\ UNCHANGED failed
    /\ UNCHANGED <<source, sort_order>>
    /\ UNCHANGED NotEnforcer

\* SortOrderEnforcingIterator.__next__ at the end of the source:
\* next(self._iter) raises StopIteration
EnforcerStop ==
    /\ estate \notin {"idle", "stopped"}
    /\ taken >= Len(source)
    /\ estate' = "stopped"
    /\ UNCHANGED <<source, sort_order, taken, last_record, delivered, failed>>
    /\ UNCHANGED NotEnforcer

NextEnforcer ==
    \/ EnforcerNext
    \/ EnforcerStop

SpecEnforcer == InitEnforcer /\ [][NextEnforcer]_vars

\* ================================================================ sort keys
\* the values of a key component, and the components a key may hold: <<>> is
\* None, <<v>> the value v
KeyValues == {1, 2}
Components(values) == {<<>>} \cup {<<v>> : v \in values}

KeyTypes == {"Coordinate", "BarcodesAndCoordinate"}

\* _CoordinateKey and _BarcodesAndCoordinateKey objects with components from
\* the given values
KeysOf(type, values) ==
    IF type = "Coordinate"
    THEN [chromosome : Components(values), start : Components(values),
          end : Components(values)]
    ELSE [tumor_barcode : Components(values), normal_barcode : Components(values),
          chromosome : Components(values), start : Components(values),
          end : Components(values)]

\* SortOrderKey.compare: None is greater than any value, and equal to None
CompareNoneLess(this, that) ==
    IF this = <<>> /\ that = <<>> THEN 0
    ELSE IF this = <<>> THEN 0 - 1
    ELSE IF that = <<>> THEN 1
    ELSE compare(this[1], that[1])
CompareNoneNeverEqual(this, that) ==
    IF this = <<>> THEN 1
    ELSE IF that = <<>> THEN 0 - 1
    ELSE compare(this[1], that[1])
compare_opt(this, that) ==
    IF this = <<>> /\ that = <<>> THEN 0
    ELSE IF this = <<>> THEN 1
    ELSE IF that = <<>> THEN 0 - 1
    ELSE compare(this[1], that[1])

\* _CoordinateKey.__cmp__
CoordinateKeyCmp(a, b) ==
    LET d1 == compare_opt(a.chromosome, b.chromosome)
        d2 == IF d1 = 0 THEN compare_opt(a.start, b.start) ELSE d1
    IN  IF d2 = 0 THEN compare_opt(a.end, b.end) ELSE d2

\* _BarcodesAndCoordinateKey.__cmp__
BarcodesAndCoordinateKeyCmp(a, b) ==
    LET d1 == compare_opt(a.tumor_barcode, b.tumor_barcode)
        d2 == IF d1 = 0 THEN compare_opt(a.normal_barcode, b.normal_barcode) ELSE d1
    IN  IF d2 = 0 THEN CoordinateKeyCmp(a, b) ELSE d2

\* a.__cmp__(b) for two keys of one class
key_cmp(type, a, b) ==
    IF type = "Coordinate" THEN CoordinateKeyCmp(a, b)
    ELSE BarcodesAndCoordinateKeyCmp(a, b)

\* SortOrderKey.__lt__ and SortOrderKey.__eq__
key_lt(type, a, b) == key_cmp(type, a, b) < 0
key_eq(type, a, b) == key_cmp(type, a, b) = 0

\* no key is built in a run that compares keys
BuildIdle ==
    /\ key_record = <<>>
    /\ key_contigs = <<>>
    /\ built = <<>>

\* two keys of one class, with any components
InitKeyPairs ==
    /\ SorterIdle
    /\ OverlapIdle
    /\ EnforcerIdle
    /\ AllelesIdle
    /\ ByAlleleIdle
    /\ BuildIdle
    /\ key_type \in KeyTypes
    /\ keyA \in KeysOf(key_type, KeyValues)
    /\ keyB \in KeysOf(key_type, KeyValues)
    /\ keyC = keyB
    /\ cmps = <<>>

\* the values of the components of the keys that are compared three by three
TripleValues(type) ==
    IF type = "Coordinate" THEN KeyValues
    ELSE {v \in KeyValues : \A w \in KeyValues : v <= w}

\* three keys of one class
InitKeyTriples ==
    /\ SorterIdle
    /\ OverlapIdle
    /\ EnforcerIdle
    /\ AllelesIdle
    /\ ByAlleleIdle
    /\ BuildIdle
    /\ key_type \in KeyTypes
    /\ keyA \in KeysOf(key_type, TripleValues(key_type))
    /\ keyB \in KeysOf(key_type, TripleValues(key_type))
    /\ keyC \in KeysOf(key_type, TripleValues(key_type))
    /\ cmps = <<>>

\* the keys are compared with each other (and themselves): __cmp__, <, ==
CompareKeys ==
    /\ key_type \in KeyTypes
    /\ cmps = <<>>
    /\ LET K == <<keyA, keyB, keyC>>
       IN  cmps' = <<[cmp |-> [i \in 1..3 |-> [j \in 1..3 |-> key_cmp(key_type, K[i], K[j])]],
                      lt |-> [i \in 1..3 |-> [j \in 1..3 |-> key_lt(key_type, K[i], K[j])]],
                      eq |-> [i \in 1..3 |-> [j \in 1..3 |-> key_eq(key_type, K[i], K[j])]]]>>
    /\ UNCHANGED <<key_type, keyA, keyB, keyC, key_record, key_contigs, built>>
    /\ UNCHANGED NotKeys

SpecKeyPairs == InitKeyPairs /\ [][CompareKeys]_vars

SpecKeyTriples == InitKeyTriples /\ [][CompareKeys]_vars

\* ------------------------------------------------------- building a key
\* the contig lists a sort order is constructed with: every list of up to
\* MaxContigs chromosomes, repeats and the empty list included
ContigLists == UNION {[1..n -> Chromosomes] : n \in 0..MaxContigs}

\* _CoordinateKey.__init__ (after the barcodes are read, for a
\* _BarcodesAndCoordinateKey): the key, or the ValueError "Could not find
\* contig" with the chromosome and the list it names
BuildKeyFallsBack(record, bb, cts) ==
    IF cts # <<>> /\ \E i \in 1..Len(cts) : cts[i] = record.chromosome
    THEN [raised |-> FALSE, named |-> <<>>, key |-> <<sort_key(record, bb, cts)>>]
    ELSE [raised |-> FALSE, named |-> <<>>, key |-> <<sort_key(record, bb, <<>>)>>]
build_key(record, bb, cts) ==
    IF cts # <<>> /\ ~\E i \in 1..Len(cts) : cts[i] = record.chromosome
    THEN [raised |-> TRUE, named |-> <<record.chromosome, cts>>, key |-> <<>>]
    ELSE [raised |-> FALSE, named |-> <<>>, key |-> <<sort_key(record, bb, cts)>>]

\* no keys are compared in a run that builds a key
CompareIdle ==
    /\ keyA = <<>>
    /\ keyB = <<>>
    /\ keyC = <<>>
    /\ cmps = <<>>

\* a record, a key class and a contig list
InitBuildKey ==
    /\ SorterIdle
    /\ OverlapIdle
    /\ EnforcerIdle
    /\ AllelesIdle
    /\ ByAlleleIdle
    /\ CompareIdle
    /\ key_type \in KeyTypes
    /\ key_record \in {<<r>> : r \in Locatables}
    /\ key_contigs \in ContigLists
    /\ built = <<>>

\* the sort order's key function is applied to the record
BuildKey ==
    /\ key_record # <<>>
    /\ built = <<>>
    /\ built' = <<build_key(key_record[1], key_type = "BarcodesAndCoordinate",
                            key_contigs)>>
    /\ UNCHANGED <<key_type, keyA, keyB, keyC, cmps, key_record, key_contigs>>
    /\ UNCHANGED NotKeys

SpecBuildKey == InitBuildKey /\ [][BuildKey]_vars

\* ======================================================= AlleleOverlapType
\* the members of the enumeration
AlleleOverlapTypes == {"Equality", "Intersects", "Subset"}
\* the alleles, each an integer standing for a string
Alleles == {1, 2}
\* the lists of alleles a record's alts may hold
AltLists == UNION {[1..n -> Alleles] : n \in 0..MaxAlts}

\* set(base)
set(list) == {list[i] : i \in 1..Len(list)}

\* AlleleOverlapType.equality: Python's list ==
EqualityAsSets(base, other) == set(base) = set(other)
equality(base, other) ==
    /\ Len(base) = Len(other)
    /\ \A i \in 1..Len(base) : base[i] = other[i]

\* AlleleOverlapType.intersects
IntersectsNoEqualLists(base, other) ==
    LET a == set(base) IN \E i \in 1..Len(other) : other[i] \in a
intersects(base, other) ==
    LET a == set(base)
    IN  (\E i \in 1..Len(other) : other[i] \in a) \/ equality(base, other)

\* AlleleOverlapType.subset
SubsetOfOther(base, other) ==
    LET a == set(other) IN \A i \in 1..Len(base) : base[i] \in a
subset(base, other) ==
    LET a == set(base) IN \A i \in 1..Len(other) : other[i] \in a

\* AlleleOverlapType.compare_by(overlap_type), applied to two lists
compare_by(type, base, other) ==
    IF type = "Equality" THEN equality(base, other)
    ELSE IF type = "Intersects" THEN intersects(base, other)
    ELSE subset(base, other)

\* a member of the enumeration and two lists of alleles
InitAlleles ==
    /\ SorterIdle
    /\ OverlapIdle
    /\ EnforcerIdle
    /\ KeysIdle
    /\ ByAlleleIdle
    /\ overlap_type \in AlleleOverlapTypes
    /\ alts_base \in AltLists
    /\ alts_other \in AltLists
    /\ compared = <<>>

\* the comparison method of the member is called on the two lists
CompareAlts ==
    /\ overlap_type \in AlleleOverlapTypes
    /\ compared = <<>>
    /\ compared' = <<compare_by(overlap_type, alts_base, alts_other)>>
    /\ UNCHANGED <<overlap_type, alts_base, alts_other>>
    /\ UNCHANGED NotAlleles

SpecAlleles == InitAlleles /\ [][CompareAlts]_vars

\* ======================================== LocatableByAlleleOverlapIterator
\* the reference allele and the alternate alleles a record may carry
RefAlts ==
    {[ref |-> 1, alts |-> <<1>>], [ref |-> 1, alts |-> <<1, 2>>],
     [ref |-> 1, alts |-> <<2>>], [ref |-> 2, alts |-> <<2>>]}

\* the records of the inputs: single positions of one chromosome, with one
\* barcode pair, that also carry ref and alts
AlleleLocatables ==
    {[chromosome |-> r.chromosome, start |-> r.start, end |-> r.end,
      tumor_barcode |-> r.tumor_barcode, normal_barcode |-> r.normal_barcode,
      ref |-> a.ref, alts |-> a.alts] :
        r \in {q \in MixedLocatables \cap InputLocatables(FALSE) : q.start = q.end},
        a \in RefAlts}

\* the sorted sequences of at most k such records
AlleleSortedUpTo ==
    [bb \in BOOLEAN, k \in 0..MaxRecords |->
        UNION {{q \in [1..n -> AlleleLocatables] : IsSorted(q, bb, <<>>)} :
                 n \in 0..k}]

\* LocatableByAlleleOverlapIterator.__should_add
ShouldAddAnyRef(items, other, type) ==
    \E k \in 1..Len(items) : compare_by(type, items[k].alts, other.alts)
ShouldAddByRepresentative(items, other, type) ==
    /\ items[1].ref = other.ref
    /\ compare_by(type, items[1].alts, other.alts)
should_add(items, other, type) ==
    \E k \in 1..Len(items) :
        /\ items[k].ref = other.ref
        /\ compare_by(type, items[k].alts, other.alts)

\* "for _items in self._list_of_items": the index of the first list the item
\* is added to (0: none, the item opens a list)
FirstAdding(lists, item, type) ==
    IF \E k \in 1..Len(lists) : should_add(lists[k], item, type)
    THEN CHOOSE k \in 1..Len(lists) :
             /\ should_add(lists[k], item, type)
             /\ \A j \in 1..(k - 1) : ~should_add(lists[j], item, type)
    ELSE 0

\* the body of "while _iter" for one item: it is appended to the first list
\* that should add it, or opens a list
PlaceItem(lists, item, type) ==
    LET k == FirstAdding(lists, item, type)
    IN  IF k # 0 THEN [lists EXCEPT ![k] = Append(@, item)]
        ELSE Append(lists, <<item>>)

\* "while _iter": the records of the first input partitioned into lists
RECURSIVE Partition(_, _, _)
Partition(_iter, lists, type) ==
    IF _iter = <<>> THEN lists
    ELSE Partition(Tail(_iter), PlaceItem(lists, Head(_iter), type), type)

\* the calls of LocatableOverlapIterator.__next__ until one returns records of
\* the first input, signals StopIteration or raises; cl is the history of the
\* clusters it returned
RECURSIVE PullCluster(_, _, _, _, _)
PullCluster(it, cl, ins, bb, cts) ==
    IF AllExhausted(it.peek)
    THEN [outcome |-> "stop", it |-> it, clusters |-> cl, records |-> <<>>]
    ELSE LET st == next_cluster(it, ins, bb, cts)
             got == Append(cl, [records |-> st.records, min_key |-> st.first_key,
                                end |-> st.min_key.end, passes |-> st.passes])
         IN  IF st.it.raised
             THEN [outcome |-> "error", it |-> st.it, clusters |-> cl,
                   records |-> <<>>]
             ELSE IF st.records[1] = <<>>
             THEN PullCluster(st.it, got, ins, bb, cts)
             ELSE [outcome |-> "cluster", it |-> st.it, clusters |-> got,
                   records |-> st.records]

\* "del self._list_of_items[0]"
DropAllLists(lists) == <<>>
DropFirstList(lists) == Tail(lists)

\* "for item in _iter: if self.__should_add(_items, item)"
Matching(_iter, _items, type) ==
    LET Adds(item) == should_add(_items, item, type)
    IN  SelectSeq(_iter, Adds)

\* the underlying iterators as a call of next() finds them
Iters == [pulled |-> pulled, last_rec |-> last_rec, peek |-> peek,
          raised |-> FALSE]

\* "if not self._list_of_items": the call has to ask the underlying iterator
NeedsCluster == list_of_items = <<>>

\* what the call gets from the underlying iterator: nothing is asked of it
\* while a list of items is held
Pulled ==
    IF NeedsCluster
    THEN PullCluster(Iters, clusters, inputs, by_barcodes,
                     SortOrderContigs(by_barcodes, fasta_index, contigs))
    ELSE [outcome |-> "held", it |-> Iters, clusters |-> clusters,
          records |-> <<>>]

\* LocatableByAlleleOverlapIterator.__init__ over sorted inputs
InitByAllele ==
    /\ SorterIdle
    /\ EnforcerIdle
    /\ KeysIdle
    /\ alts_base = <<>>
    /\ alts_other = <<>>
    /\ compared = <<>>
    /\ overlap_type \in AlleleOverlapTypes
    /\ by_barcodes \in BOOLEAN
    /\ fasta_index = <<>>
    /\ contigs = <<>>
    /\ \E n \in IterCounts :
         \/ n = 0 /\ inputs = <<>>
         \/ n = 1 /\ \E a \in AlleleSortedUpTo[by_barcodes, MaxRecords] :
                        inputs = <<a>>
         \/ n = 2 /\ \E a \in AlleleSortedUpTo[by_barcodes, MaxRecords] :
                        \E b \in AlleleSortedUpTo[by_barcodes, MaxRecords - Len(a)] :
                            inputs = <<a, b>>
    /\ LET it == WrapIters([pulled |-> [i \in 1..Len(inputs) |-> 0],
                            last_rec |-> [i \in 1..Len(inputs) |-> <<>>],
                            peek |-> [i \in 1..Len(inputs) |-> <<>>],
                            raised |-> FALSE],
                           1, inputs, by_barcodes,
                           SortOrderContigs(by_barcodes, fasta_index, contigs))
       IN  /\ pulled = it.pulled
           /\ last_rec = it.last_rec
           /\ peek = it.peek
           /\ ophase = IF it.raised THEN "error" ELSE "ready"
    /\ clusters = <<>>
    /\ list_of_items = <<>>
    /\ other_iters = <<>>
    /\ gphase = IF ophase = "error" THEN "error" ELSE "ready"
    /\ yielded = <<>>

\* next() returns the tuple of one list of items
ByAlleleNext ==
    /\ gphase = "ready"
    /\ Len(yielded) < MaxCalls
    /\ \E p \in {Pulled} :
         /\ p.outcome \in {"held", "cluster"}
         /\ \E lists \in {IF p.outcome = "cluster"
                           THEN Partition(p.records[1], <<>>, overlap_type)
                           ELSE list_of_items},
               others \in {IF p.outcome = "cluster" THEN Tail(p.records)
                            ELSE other_iters} :
              \E _items \in {Head(lists)} :
                  /\ list_of_items' = DropFirstList(lists)
                  /\ other_iters' = others
                  /\ yielded' = Append(yielded,
                         [tuple |-> <<_items>> \o
                              [i \in 1..Len(others) |->
                                  Matching(others[i], _items, overlap_type)],
                          cluster |-> Len(p.clusters)])
         /\ pulled' = p.it.pulled
         /\ last_rec' = p.it.last_rec
         /\ peek' = p.it.peek
         /\ clusters' = p.clusters
    /\ UNCHANGED <<inputs, by_barcodes, fasta_index, contigs, ophase,
                   overlap_type, gphase>>
    /\ UNCHANGED NotByAllele

\* next() ends without a tuple: the underlying iterator signalled
\* StopIteration, or raised, before it returned records of the first input
ByAlleleStop ==
    /\ gphase = "ready"
    /\ \E p \in {Pulled} :
         /\ p.outcome \in {"stop", "error"}
         /\ pulled' = p.it.pulled
         /\ last_rec' = p.it.last_rec
         /\ peek' = p.it.peek
         /\ clusters' = p.clusters
         /\ gphase' = IF p.outcome = "stop" THEN "stopped" ELSE "error"
         /\ ophase' = IF p.outcome = "stop" THEN "stopped" ELSE "error"
    /\ UNCHANGED <<inputs, by_barcodes, fasta_index, contigs, overlap_type,
                   list_of_items, other_iters, yielded>>
    /\ UNCHANGED NotByAllele

NextByAllele ==
    \/ ByAlleleNext
    \/ ByAlleleStop

SpecByAllele == InitByAllele /\ [][NextByAllele]_vars

\* ---------------------------------------------------------------- claims
IterationStarted == phase # "adding"

\* the records sorted all at once in memory with the stable sort
ReferenceSort(recs) ==
    LET srt == sorted([i \in 1..Len(recs) |-> SortEntry(key_func(recs[i]), encode(recs[i]))])
    IN  [i \in 1..Len(recs) |-> decode(srt[i].data, 0, Len(srt[i].data))]

\* C1: the records yielded so far are in non-descending key order: no
\* yielded record's key is less than the key of the record yielded before it.
C1_YieldedInKeyOrder ==
    \A i \in 1..(Len(out) - 1) : ~(key_func(out[i + 1]) < key_func(out[i]))

\* C1 witness: a merge of two or more spill files has ended after yielding
\* every one of three records that were added out of key order.
C1_Witness ==
    /\ phase = "done"
    /\ Len(opened) >= 2
    /\ Len(out) = 3
    /\ \E i \in 1..(Len(added) - 1) : key_func(added[i + 1]) < key_func(added[i])

\* C2 (as claimed): once the iteration has ended, every added record has been
\* yielded exactly once: as many records were yielded as were added, and each
\* added record is at exactly one position of the output.
C2_EveryRecordYieldedOnce ==
    phase = "done" =>
        /\ Len(out) = Len(added)
        /\ \A i \in 1..Len(added) :
             Cardinality({j \in 1..Len(out) : out[j] = added[i]}) = 1

\* C3 (as claimed): with max_objects_in_ram = k in [1, N] for N added records,
\* the completed iteration has yielded the records in the order a stable
\* in-memory sort of all N gives them.
C3_SameAsStableSort ==
    (phase = "done" /\ max_objects_in_ram <= Len(added)) =>
        out = ReferenceSort(added)

\* C4 (as claimed): a close() that follows a close() which returned normally
\* does not raise, and close() on a Sorter that never spilled does not raise.
C4_SecondCloseDoesNotRaise ==
    \A i \in 1..Len(closes) :
        (paths = <<>> \/ (i >= 2 /\ closes[i - 1].result = "ok"))
            => closes[i].result = "ok"

\* C5: every step that is a close() call obeys the contract: if it returns
\* normally every spill file is gone and every descriptor closed; if it raises
\* the error is not "no such file" and a descriptor was already closed or a
\* file could not be deleted; and if every descriptor is open and no file is
\* undeletable it returns normally, whichever spill files are already gone.
C5_CloseContract ==
    [][closes' # closes =>
        LET r == closes'[Len(closes')]
            idx == 1..Len(paths)
        IN  /\ r.result = "ok" =>
                 \A i \in idx : ~fs'[paths[i]].exists /\ ~fs'[fds[i]].fd_open
            /\ r.result = "raised" =>
                 /\ r.errno # "ENOENT"
                 /\ \E i \in idx : \/ ~fs[fds[i]].fd_open
                                   \/ fs[paths[i]].exists /\ fs[paths[i]].locked
            /\ (\A i \in idx : /\ fs[fds[i]].fd_open
                               /\ ~(fs[paths[i]].exists /\ fs[paths[i]].locked))
                 => r.result = "ok"]_vars

\* C5 witness: a close() returned normally although the first spill file, and
\* not the last, was already gone when it was called.
C5_Witness ==
    /\ Len(paths) >= 2
    /\ \E i \in 1..Len(closes) :
         /\ closes[i].result = "ok"
         /\ 1 \in closes[i].missing
         /\ Len(paths) \notin closes[i].missing
    /\ \A p \in 1..Len(fs) : ~fs[p].exists /\ ~fs[p].fd_open

\* C6 (as claimed): with always_spill set and fewer than max_objects_in_ram
\* records added, the merge that the iteration starts reads at least one
\* spill file, written before the first read.
C6_AlwaysSpillWritesAFile ==
    (always_spill /\ IterationStarted /\ Len(added) < max_objects_in_ram)
        => Len(opened) >= 1

\* C6 (amended): with always_spill set and between 1 and max_objects_in_ram - 1
\* records added, the iteration has written exactly one spill file, holding
\* every added record, before the merge opens it; with no record added no
\* spill file is written.
C6_AlwaysSpillWritesAFileUnlessEmpty ==
    (always_spill /\ IterationStarted /\ Len(added) < max_objects_in_ram) =>
        IF Len(added) >= 1
        THEN /\ Len(opened) = 1
             /\ Len(fs[opened[1]].content) = 4 * Len(added)
             /\ objects_in_memory = 0
        ELSE opened = <<>> /\ fs = <<>>

\* C6 witness: two records were added to an always-spilling Sorter with room
\* for three, and the iteration has opened the one spill file.
C6_Witness ==
    /\ always_spill
    /\ IterationStarted
    /\ max_objects_in_ram = 3
    /\ Len(added) = 2
    /\ Len(opened) = 1

\* ------------------------------------------------- claims: overlap iterator
\* the records of cluster c, of all inputs
ClusterRecords(c) == {c.records[i][j] : <<i, j>> \in
                        {x \in (1..Len(c.records)) \X (1..MaxRecords) :
                            x[2] <= Len(c.records[x[1]])}}

\* what the clusters returned so far hold of input i, in the order returned
RECURSIVE Returned(_, _)
Returned(i, n) ==
    IF n = 0 THEN <<>> ELSE Returned(i, n - 1) \o clusters[n].records[i]

\* the largest end among the records of cluster c
MaxEnd(c) == CHOOSE e \in {r.end : r \in ClusterRecords(c)} :
                \A r \in ClusterRecords(c) : r.end <= e

OverlapContigs == SortOrderContigs(by_barcodes, fasta_index, contigs)

\* record r is on the chromosome (and has the barcode pair, when enabled) of key k
SameLocus(r, k) ==
    LET rk == sort_key(r, by_barcodes, OverlapContigs)
    IN  /\ rk.chromosome = k.chromosome
        /\ by_barcodes => /\ rk.tumor_barcode = k.tumor_barcode
                          /\ rk.normal_barcode = k.normal_barcode

\* C7: for sorted inputs no call raises; every cluster has one list per input
\* and at least one non-empty list; input i's lists, concatenated over the
\* clusters returned so far, are a prefix of input i, and are the whole of
\* input i once next() has signalled the end.
C7_EveryRecordInOneCluster ==
    /\ ophase # "error"
    /\ \A n \in 1..Len(clusters) :
         /\ Len(clusters[n].records) = Len(inputs)
         /\ \E i \in 1..Len(inputs) : clusters[n].records[i] # <<>>
    /\ \A i \in 1..Len(inputs) :
         /\ Len(Returned(i, Len(clusters))) <= Len(inputs[i])
         /\ Returned(i, Len(clusters)) =
              SubSeq(inputs[i], 1, Len(Returned(i, Len(clusters))))
         /\ ophase = "stopped" => Returned(i, Len(clusters)) = inputs[i]

\* C7 witness: the iteration over two inputs holding three records has ended,
\* with two clusters returned, one of them holding records of both inputs.
C7_Witness ==
    /\ ophase = "stopped"
    /\ Len(inputs) = 2
    /\ Len(inputs[1]) + Len(inputs[2]) = 3
    /\ Len(clusters) = 2
    /\ \E n \in 1..2 : clusters[n].records[1] # <<>> /\ clusters[n].records[2] # <<>>

\* C8: the window of every returned cluster runs from the start of its minimum
\* key to the largest end of its records, every record of the cluster is on
\* the minimum key's chromosome with its start inside the window, and once the
\* latest cluster is returned no input's next unread record is on the same
\* chromosome (and barcode pair, when enabled) with start <= the window's end.
C8_WindowIsFixedPoint ==
    /\ \A n \in 1..Len(clusters) :
         LET c == clusters[n]
         IN  /\ c.end = MaxEnd(c)
             /\ \A r \in ClusterRecords(c) :
                  /\ sort_key(r, by_barcodes, OverlapContigs).chromosome
                       = c.min_key.chromosome
                  /\ c.min_key.start <= r.start
                  /\ r.start <= c.end
    /\ clusters # <<>> =>
         LET c == clusters[Len(clusters)]
         IN  \A i \in 1..Len(peek) :
                 peek[i] # <<>> =>
                     ~(SameLocus(peek[i][1], c.min_key) /\ peek[i][1].start <= c.end)

\* C8 witness: a cluster holds, from the first input, a record that starts
\* after the end of the minimum key and after the end of the record before it:
\* it came in only on a later pass, after a record of the second input had
\* moved the window's end.
C8_Witness ==
    \E n \in 1..Len(clusters) :
        LET c == clusters[n]
        IN  /\ Len(c.records) = 2
            /\ Len(c.records[1]) = 2
            /\ Len(c.records[2]) = 1
            /\ c.records[1][2].start > c.min_key.end
            /\ c.records[1][2].start > c.records[1][1].end
            /\ c.records[2][1].end = c.end

\* C9 (as claimed): any two records of one cluster are on the same chromosome
\* and their closed intervals intersect.
C9_PairwiseOverlap ==
    \A n \in 1..Len(clusters) :
        \A r1, r2 \in ClusterRecords(clusters[n]) :
            /\ r1.chromosome = r2.chromosome
            /\ r1.start <= r2.end
            /\ r2.start <= r1.end

\* C9 (amended): the records of one cluster are on the same chromosome and
\* are chained by overlap: every record starts between the cluster's smallest
\* start and its largest end, and the closed intervals leave no gap between
\* those two positions (each stretch from p to p + 1 lies in some record).
C9_ChainedOverlap ==
    \A n \in 1..Len(clusters) :
        LET c == clusters[n]
            recs == ClusterRecords(c)
        IN  /\ \A r1, r2 \in recs : r1.chromosome = r2.chromosome
            /\ \A r \in recs : c.min_key.start <= r.start /\ r.start <= MaxEnd(c)
            /\ \E r \in recs : r.start = c.min_key.start
            /\ \A q \in c.min_key.start..(MaxEnd(c) - 1) :
                 \E r \in recs : r.start <= q /\ q + 1 <= r.end

\* C9 witness: a cluster of three records, two of which do not intersect.
C9_Witness ==
    \E n \in 1..Len(clusters) :
        /\ Cardinality(ClusterRecords(clusters[n])) = 3
        /\ \E r1, r2 \in ClusterRecords(clusters[n]) : r1.end < r2.start

\* C10: the minimum key of each cluster is not less than the minimum key of
\* the cluster before it, and every record of a later cluster that is on the
\* chromosome (and has the barcode pair, when enabled) of an earlier cluster
\* starts after the largest end of that earlier cluster.
C10_ClustersAscend ==
    /\ \A n \in 2..Len(clusters) :
         ~KeyLess(clusters[n].min_key, clusters[n - 1].min_key, by_barcodes)
    /\ \A m, n \in 1..Len(clusters) :
         m < n =>
            \A r \in ClusterRecords(clusters[n]) :
                SameLocus(r, clusters[m].min_key) => r.start > MaxEnd(clusters[m])

\* C10 witness: two clusters on one chromosome (and barcode pair) were
\* returned from two inputs, the later one from the first input.
C10_Witness ==
    /\ Len(inputs) = 2
    /\ Len(clusters) >= 2
    /\ clusters[2].records[1] # <<>>
    /\ clusters[1].records[2] # <<>>
    /\ \E r \in ClusterRecords(clusters[2]) : SameLocus(r, clusters[1].min_key)

\* the records of an input with the barcode columns blanked
EraseBarcodes(ins) ==
    [i \in 1..Len(ins) |->
        [j \in 1..Len(ins[i]) |->
            [ins[i][j] EXCEPT !.tumor_barcode = 1, !.normal_barcode = 1]]]

\* what the successive next() calls return, from the iterators it on, until
\* StopIteration
RECURSIVE RunFrom(_, _, _, _)
RunFrom(it, ins, bb, cts) ==
    IF AllExhausted(it.peek) THEN <<>>
    ELSE LET st == next_cluster(it, ins, bb, cts)
         IN  IF st.it.raised THEN <<>>
             ELSE <<st.records>> \o RunFrom(st.it, ins, bb, cts)

\* the whole run of a new iterator over the inputs ins
Run(ins, bb, cts) ==
    RunFrom(WrapIters([pulled |-> [i \in 1..Len(ins) |-> 0],
                       last_rec |-> [i \in 1..Len(ins) |-> <<>>],
                       peek |-> [i \in 1..Len(ins) |-> <<>>],
                       raised |-> FALSE], 1, ins, bb, cts),
            ins, bb, cts)

\* C11: with by_barcodes on, every record of a returned cluster has the tumor
\* and the normal barcode of the cluster's minimum key; with by_barcodes off,
\* the clusters are, barcodes apart, the clusters the same inputs give once
\* their barcode columns are blanked.
C11_BarcodesSplitClusters ==
    /\ by_barcodes =>
         \A n \in 1..Len(clusters) :
             \A r \in ClusterRecords(clusters[n]) :
                 /\ r.tumor_barcode = clusters[n].min_key.tumor_barcode
                 /\ r.normal_barcode = clusters[n].min_key.normal_barcode
    /\ ~by_barcodes =>
         LET ref == Run(EraseBarcodes(inputs), FALSE, OverlapContigs)
         IN  /\ ophase # "error"
             /\ Len(clusters) <= Len(ref)
             /\ ophase = "stopped" => Len(clusters) = Len(ref)
             /\ \A n \in 1..Len(clusters) :
                  EraseBarcodes(clusters[n].records) = ref[n]

\* C11 witness: with by_barcodes off, a cluster holds two records whose
\* barcode pairs differ.
C11_Witness ==
    /\ ~by_barcodes
    /\ \E n \in 1..Len(clusters) :
         \E r1, r2 \in ClusterRecords(clusters[n]) :
             <<r1.tumor_barcode, r1.normal_barcode>>
                 # <<r2.tumor_barcode, r2.normal_barcode>>

\* the ranking the construction arguments configure
ConfiguredContigs == CoordinateContigs(fasta_index, contigs)

\* C12 (as claimed): the configured chromosome ranking is the one the
\* iterator enforces and picks the minimum key by, by_barcodes on or off: no
\* call raises on inputs sorted under the configured ranking, every cluster's
\* minimum key carries the configured rank of the cluster's chromosome, and
\* under the configured ranking no cluster's first record is less than the
\* first record of the cluster before it.
C12_ConfiguredRankingUsed ==
    /\ ophase # "error"
    /\ \A n \in 1..Len(clusters) :
         \A r \in ClusterRecords(clusters[n]) :
             sort_key(r, by_barcodes, ConfiguredContigs).chromosome
                 = clusters[n].min_key.chromosome
    /\ \A n \in 2..Len(clusters) :
         \E r1 \in ClusterRecords(clusters[n - 1]) :
             \A r \in ClusterRecords(clusters[n]) :
                 ~KeyLess(sort_key(r, by_barcodes, ConfiguredContigs),
                          sort_key(r1, by_barcodes, ConfiguredContigs),
                          by_barcodes)

C14_CallsEndAndStopWhenExhausted ==
    [][/\ (ophase' = "stopped") <=> (\A i \in 1..Len(inputs) : peek[i] = <<>>)
       /\ (\A i \in 1..Len(inputs) : inputs[i] = <<>>) => ophase' = "stopped"
       /\ ophase' = "stopped" =>
            \A i \in 1..Len(inputs) : pulled[i] = Len(inputs[i])
       /\ clusters' # clusters =>
            LET c == clusters'[Len(clusters')]
                k == Len(c.passes)
            IN  /\ clusters' = Append(clusters, c)
                /\ k >= 1
                /\ c.passes[k] = 0
                /\ \A j \in 1..(k - 1) : c.passes[j] >= 1
                /\ k <= TotalLen(c.records) + 1]_vars

\* C14 witness: the iteration has ended after a call that needed three
\* passes: two that took records and the last that took none.
C14_Witness ==
    /\ ophase = "stopped"
    /\ \E n \in 1..Len(clusters) : Len(clusters[n].passes) = 3

\* the position in the source of the first element whose key is less than
\* the key of the element before it (one past the end if there is none)
FirstDescent ==
    LET bb == sort_order = "BarcodesAndCoordinate"
        bad == {j \in 2..Len(source) :
                  KeyLess(sort_key(source[j], bb, <<>>),
                          sort_key(source[j - 1], bb, <<>>), bb)}
    IN  IF bad = {} THEN Len(source) + 1
        ELSE CHOOSE j \in bad : \A k \in bad : j <= k

\* C15: under Coordinate or BarcodesAndCoordinate, the elements before the
\* first element whose key is less than its predecessor's are delivered
\* unchanged and in source order, equal keys included, with no error; the call
\* that reaches that element raises and does not deliver it.
C15_RaisesAtFirstDescent ==
    sort_order \in {"Coordinate", "BarcodesAndCoordinate"} =>
        IF taken < FirstDescent
        THEN /\ failed = <<>>
             /\ delivered = SubSeq(source, 1, taken)
        ELSE /\ failed # <<>>
             /\ failed[1] = FirstDescent
             /\ SubSeq(delivered, 1, FirstDescent - 1)
                  = SubSeq(source, 1, FirstDescent - 1)
             /\ taken = FirstDescent =>
                  /\ failed = <<FirstDescent>>
                  /\ estate # "returned"
                  /\ delivered = SubSeq(source, 1, FirstDescent - 1)

\* C15 witness: two elements with equal keys were delivered and the call for
\* the third element, whose key is less, raised.
C15_Witness ==
    /\ sort_order \in {"Coordinate", "BarcodesAndCoordinate"}
    /\ estate = "raised"
    /\ taken = 3
    /\ Len(delivered) = 2
    /\ delivered[1] = delivered[2]

\* C16: under Unknown or Unsorted no call raises an ordering error and the
\* elements delivered are the elements pulled, in source order: all of the
\* source once its end is reached.
C16_NoOrderNeverRaises ==
    sort_order \in {"Unknown", "Unsorted"} =>
        /\ failed = <<>>
        /\ estate # "raised"
        /\ delivered = SubSeq(source, 1, taken)
        /\ estate = "stopped" => delivered = source

\* C16 witness: a source that is not in coordinate order was delivered whole.
C16_Witness ==
    /\ sort_order \in {"Unknown", "Unsorted"}
    /\ estate = "stopped"
    /\ Len(delivered) >= 2
    /\ FirstDescent <= Len(source)

\* C17: every call that gets an element pulls exactly one element from the
\* source and either returns that element or raises at it; so the elements
\* pulled and not delivered are the elements calls raised at (one, while one
\* call has raised), and the element retained is the last one delivered.
C17_OneElementLookback ==
    [][/\ taken' # taken =>
            /\ taken' = taken + 1
            /\ \/ /\ delivered' = Append(delivered, source[taken'])
                  /\ failed' = failed
                  /\ last_record' = <<source[taken']>>
               \/ /\ delivered' = delivered
                  /\ failed' = Append(failed, taken')
                  /\ last_record' = last_record
       /\ taken' = taken => delivered' = delivered /\ failed' = failed
       /\ taken' - Len(delivered') = Len(failed')
       /\ Len(failed') <= 1 => taken' - Len(delivered') <= 1
       /\ last_record' = IF delivered' = <<>> THEN <<>>
                         ELSE <<delivered'[Len(delivered')]>>]_vars

\* C17 witness: a call raised at the second element, after which two elements
\* were pulled, one delivered, and the first is the one retained.
C17_Witness ==
    /\ estate = "raised"
    /\ taken = 2
    /\ Len(delivered) = 1
    /\ failed = <<2>>
    /\ last_record = <<source[1]>>

\* the components of a key in the order its class compares them
ComponentsInOrder(type, k) ==
    IF type = "Coordinate" THEN <<k.chromosome, k.start, k.end>>
    ELSE <<k.tumor_barcode, k.normal_barcode, k.chromosome, k.start, k.end>>

\* the order of two components as the claim words it: an absent one is
\* greater than any present one, two absent ones are equal
ComponentOrder(x, y) ==
    IF x = y THEN 0
    ELSE IF x = <<>> THEN 1
    ELSE IF y = <<>> THEN 0 - 1
    ELSE IF x[1] < y[1] THEN 0 - 1 ELSE 1

\* lexicographic order: the first component that differs decides
Lexicographic(ta, tb) ==
    LET differ == {i \in 1..Len(ta) : ta[i] # tb[i]}
    IN  IF differ = {} THEN 0
        ELSE LET first == CHOOSE i \in differ : \A j \in differ : i <= j
             IN  ComponentOrder(ta[first], tb[first])

\* C18: comparing two keys of one class gives the lexicographic order of
\* their components, (chromosome, start, end) or (tumor barcode, normal
\* barcode, chromosome, start, end), None being greater than any value and
\* equal to None; < and == are that order being negative and zero.
C18_KeyComparisonIsLexicographic ==
    cmps # <<>> =>
        \A i, j \in 1..2 :
            LET K == <<keyA, keyB>>
                expected == Lexicographic(ComponentsInOrder(key_type, K[i]),
                                          ComponentsInOrder(key_type, K[j]))
            IN  /\ cmps[1].cmp[i][j] = expected
                /\ cmps[1].lt[i][j] = (expected < 0)
                /\ cmps[1].eq[i][j] = (expected = 0)

\* C18 witness: two BarcodesAndCoordinate keys were compared that agree on
\* both barcodes and the chromosome and differ in start, where the first has
\* no start and the second has one: the first is the greater.
C18_Witness ==
    /\ cmps # <<>>
    /\ key_type = "BarcodesAndCoordinate"
    /\ keyA.tumor_barcode = keyB.tumor_barcode
    /\ keyA.normal_barcode = keyB.normal_barcode
    /\ keyA.chromosome = keyB.chromosome
    /\ keyA.start = <<>>
    /\ keyB.start # <<>>
    /\ cmps[1].cmp[1][2] = 1

\* C19: on the keys compared, < is irreflexive, asymmetric and transitive,
\* being incomparable is transitive and is the same as ==, and two keys are
\* == exactly when all their components are equal (None equal to None).
C19_StrictWeakOrdering ==
    cmps # <<>> =>
        LET lt == cmps[1].lt
            eq == cmps[1].eq
            K == <<keyA, keyB, keyC>>
            inc(i, j) == ~lt[i][j] /\ ~lt[j][i]
        IN  /\ \A i \in 1..3 : ~lt[i][i]
            /\ \A i, j \in 1..3 : lt[i][j] => ~lt[j][i]
            /\ \A i, j, k \in 1..3 : (lt[i][j] /\ lt[j][k]) => lt[i][k]
            /\ \A i, j, k \in 1..3 : (inc(i, j) /\ inc(j, k)) => inc(i, k)
            /\ \A i, j \in 1..3 : inc(i, j) <=> eq[i][j]
            /\ \A i, j \in 1..3 : eq[i][j] <=> (K[i] = K[j])

\* C19 witness: three different Coordinate keys in a chain were compared, the
\* least with every component present, the greatest with none.
C19_Witness ==
    /\ cmps # <<>>
    /\ key_type = "Coordinate"
    /\ cmps[1].lt[1][2]
    /\ cmps[1].lt[2][3]
    /\ keyA.chromosome # <<>> /\ keyA.start # <<>> /\ keyA.end # <<>>
    /\ keyC.chromosome = <<>> /\ keyC.start = <<>> /\ keyC.end = <<>>

\* C20: with a non-empty contig list, the key of a record whose chromosome is
\* in the list has as its chromosome the (first) index of it in the list,
\* counted from 0, and building the key of a record whose chromosome is not
\* in the list raises, naming the chromosome and the list; with no contig
\* list the key has the record's own chromosome and nothing is raised.  The
\* key has the record's start and end.
C20_ContigRankOrError ==
    built # <<>> =>
        LET r == built[1]
            rec == key_record[1]
            at == {i \in 1..Len(key_contigs) : key_contigs[i] = rec.chromosome}
        IN  /\ (key_contigs # <<>> /\ at # {}) =>
                 /\ ~r.raised
                 /\ r.key[1].chromosome + 1 \in at
                 /\ \A i \in at : r.key[1].chromosome + 1 <= i
            /\ (key_contigs # <<>> /\ at = {}) =>
                 /\ r.raised
                 /\ r.key = <<>>
                 /\ r.named = <<rec.chromosome, key_contigs>>
            /\ key_contigs = <<>> =>
                 /\ ~r.raised
                 /\ r.key[1].chromosome = rec.chromosome
            /\ ~r.raised =>
                 /\ r.key[1].start = rec.start
                 /\ r.key[1].end = rec.end

\* C20 witness: building the key of a record raised because its chromosome
\* is not in the contig list it was built with.
C20_Witness ==
    /\ built # <<>>
    /\ built[1].raised
    /\ key_contigs # <<>>
    /\ \A i \in 1..Len(key_contigs) : key_contigs[i] # key_record[1].chromosome

\* the comparison of the run has been made and was of the given type
Compared(type) == overlap_type = type /\ compared # <<>>

C23_SubsetOfBase ==
    Compared("Subset") =>
        /\ compared[1] <=> set(alts_other) \subseteq set(alts_base)
        /\ alts_other = <<>> => compared[1]
        /\ (\E x \in set(alts_other) : x \notin set(alts_base)) => ~compared[1]

\* Subset was called with a base that holds more than the other list, which
\* repeats an element
C23_Witness ==
    /\ Compared("Subset")
    /\ set(alts_other) # set(alts_base)
    /\ Len(alts_other) > Cardinality(set(alts_other))
    /\ compared[1]

\* how often the record occurs in the sequence
Count(r, seq) == Cardinality({i \in 1..Len(seq) : seq[i] = r})

\* the yielded tuples that came from cluster c of the underlying iterator
TuplesOf(c) == {k \in 1..Len(yielded) : yielded[k].cluster = c}

\* how often the record occurs in the first lists yielded from cluster c
YieldedCount(r, c) ==
    Cardinality({ki \in TuplesOf(c) \X (1..MaxCalls) :
                    /\ ki[2] <= Len(yielded[ki[1]].tuple[1])
                    /\ yielded[ki[1]].tuple[1][ki[2]] = r})

\* how often the record occurs in the lists of items still held
HeldCount(r) ==
    Cardinality({ki \in (1..Len(list_of_items)) \X (1..MaxCalls) :
                    /\ ki[2] <= Len(list_of_items[ki[1]])
                    /\ list_of_items[ki[1]][ki[2]] = r})

\* C24: one tuple of lists is yielded per group.  Every tuple has one list
\* per input and a first list that is not empty; the tuples come from the
\* clusters in the order the underlying iterator returned them; once a
\* later cluster has been pulled, or no list of items is held any more, every
\* first-input record of a cluster is in the first list of exactly one tuple
\* yielded from that cluster (before that, in one tuple or in one held list).
C24_GroupsYieldedBeforeNextCluster ==
    /\ \A k \in 1..Len(yielded) :
         /\ Len(yielded[k].tuple) = Len(inputs)
         /\ yielded[k].tuple[1] # <<>>
         /\ yielded[k].cluster \in 1..Len(clusters)
         /\ \A i \in 1..Len(yielded[k].tuple[1]) :
              Count(yielded[k].tuple[1][i], clusters[yielded[k].cluster].records[1]) > 0
         /\ k < Len(yielded) => yielded[k].cluster <= yielded[k + 1].cluster
    /\ list_of_items # <<>> => clusters # <<>>
    /\ \A c \in 1..Len(clusters) :
         \A i \in 1..Len(clusters[c].records[1]) :
            LET r == clusters[c].records[1][i]
            IN  Count(r, clusters[c].records[1]) =
                    YieldedCount(r, c) + (IF c = Len(clusters) THEN HeldCount(r) ELSE 0)

\* a cluster gave two tuples, and then a tuple of the next cluster was yielded
C24_Witness ==
    /\ Len(yielded) = 3
    /\ yielded[1].cluster = yielded[2].cluster
    /\ yielded[2].cluster < yielded[3].cluster

\* the records of the sequence that have the ref of, and satisfy the predicate
\* with, a record of the group
MatchesOf(seq, group, type) ==
    SelectSeq(seq, LAMBDA r :
        \E g \in 1..Len(group) :
            /\ group[g].ref = r.ref
            /\ compare_by(type, group[g].alts, r.alts))

\* C25: in a yielded tuple, list i (i >= 2) holds exactly the records of
\* input i in the tuple's cluster that have the ref of, and satisfy
\* predicate(group record's alts, record's alts) with, a record of the group,
\* in input order; no tuple is yielded from a cluster that holds no record of
\* the first input.
C25_OtherListsHoldTheMatches ==
    \A k \in 1..Len(yielded) :
        LET y == yielded[k]
        IN  /\ clusters[y.cluster].records[1] # <<>>
            /\ \A i \in 2..Len(inputs) :
                 y.tuple[i] = MatchesOf(clusters[y.cluster].records[i],
                                        y.tuple[1], overlap_type)

\* a tuple's second list holds a record and leaves out a record of the
\* cluster whose alts satisfy the predicate with a record of the group
C25_Witness ==
    \E k \in 1..Len(yielded) :
        LET y == yielded[k]
            all == clusters[y.cluster].records[2]
        IN  /\ Len(inputs) = 2
            /\ y.tuple[2] # <<>>
            /\ \E j \in 1..Len(all) :
                 /\ Count(all[j], y.tuple[2]) = 0
                 /\ \E g \in 1..Len(y.tuple[1]) :
                      compare_by(overlap_type, y.tuple[1][g].alts, all[j].alts)

\* the record joins the group: by comparison with the group's representative
\* only, or with any record of the group
Joins(group, r, type, representative) ==
    \E g \in 1..Len(group) :
        /\ representative => g = 1
        /\ group[g].ref = r.ref
        /\ compare_by(type, group[g].alts, r.alts)

\* a single pass in input order: each record joins the first group it joins,
\* and opens a group if there is none
RECURSIVE SinglePassGroups(_, _, _, _)
SinglePassGroups(recs, groups, type, representative) ==
    IF recs = <<>> THEN groups
    ELSE LET r == Head(recs)
             joined == {g \in 1..Len(groups) : Joins(groups[g], r, type, representative)}
             first == CHOOSE g \in joined : \A h \in joined : g <= h
         IN  SinglePassGroups(Tail(recs),
                 IF joined = {} THEN Append(groups, <<r>>)
                 ELSE [groups EXCEPT ![first] = Append(@, r)],
                 type, representative)

\* the groups of cluster c: the first lists yielded from it, in order, and,
\* for the latest cluster, the lists of items still held
RECURSIVE FirstListsFrom(_, _)
FirstListsFrom(k, c) ==
    IF k > Len(yielded) THEN <<>>
    ELSE (IF yielded[k].cluster = c THEN <<yielded[k].tuple[1]>> ELSE <<>>)
             \o FirstListsFrom(k + 1, c)

GroupsOf(c) ==
    FirstListsFrom(1, c) \o (IF c = Len(clusters) THEN list_of_items ELSE <<>>)

\* C26 as stated: a record joins the first group whose representative has the
\* same ref and satisfies predicate(representative.alts, record.alts).
C26_GroupedByRepresentative ==
    \A c \in 1..Len(clusters) :
        clusters[c].records[1] # <<>> =>
            GroupsOf(c) = SinglePassGroups(clusters[c].records[1], <<>>,
                                           overlap_type, TRUE)

\* C26, amended: within one cluster the first input's records are partitioned
\* in a single pass in input order: a record joins the first existing group
\* in which some record (not only the one that opened it) has the same ref
\* and satisfies predicate(that record's alts, record's alts), and opens a
\* new group otherwise.
C26_GroupedByAnyMember ==
    \A c \in 1..Len(clusters) :
        clusters[c].records[1] # <<>> =>
            GroupsOf(c) = SinglePassGroups(clusters[c].records[1], <<>>,
                                           overlap_type, FALSE)

\* a record was put in a group whose representative it does not match
C26_Witness ==
    \E k \in 1..Len(yielded) :
        \E i \in 2..Len(yielded[k].tuple[1]) :
            ~Joins(yielded[k].tuple[1], yielded[k].tuple[1][i], overlap_type, TRUE)

\* the records a spill file holds, decoded frame by frame
FrameLen == Len(encode([key |-> 0, id |-> 0, truthy |-> TRUE])) + 1
FileRecords(content) ==
    [i \in 1..(Len(content) \div FrameLen) |->
        decode(SubSeq(content, FrameLen * (i - 1) + 2, FrameLen * i), 0,
               content[FrameLen * (i - 1) + 1])]

\* C27: after every add() the number of buffered entries is at least 0 and
\* less than max_objects_in_ram, and the next free slot is a slot of the
\* buffer.  The add() that brings the buffer to max_objects_in_ram writes all
\* the buffered entries, in key order, to one new spill file (the files
\* written before are left as they are) and leaves the buffer empty; any
\* other add() writes no file and buffers one entry more.
C27_BufferBelowCapacityAfterAdd ==
    [][added' # added =>
        /\ objects_in_memory' \in 0..(max_objects_in_ram - 1)
        /\ objects_in_memory' + 1 \in DOMAIN stash'
        /\ stash'[objects_in_memory' + 1] = <<>>
        /\ IF objects_in_memory + 1 = max_objects_in_ram
           THEN LET recs == FileRecords(fs'[paths'[Len(paths')]].content)
                    n == Len(added')
                IN  /\ objects_in_memory' = 0
                    /\ \A i \in DOMAIN stash' : stash'[i] = <<>>
                    /\ paths' = Append(paths, paths'[Len(paths')])
                    /\ Len(fs') = Len(fs) + 1
                    /\ \A p \in 1..Len(fs) : fs'[p] = fs[p]
                    /\ paths'[Len(paths')] = Len(fs')
                    /\ Len(recs) = max_objects_in_ram
                    /\ {recs[i] : i \in 1..Len(recs)} =
                           {added'[j] : j \in (n - max_objects_in_ram + 1)..n}
                    /\ \A i \in 1..(Len(recs) - 1) :
                           key_func(recs[i]) <= key_func(recs[i + 1])
           ELSE /\ objects_in_memory' = objects_in_memory + 1
                /\ paths' = paths
                /\ fs' = fs]_vars

\* an add() has spilled two entries that were added in descending key order,
\* and the add() after it has buffered one entry
C27_Witness ==
    /\ phase = "adding"
    /\ max_objects_in_ram = 2
    /\ Len(added) = 3
    /\ key_func(added[2]) < key_func(added[1])
    /\ Len(paths) = 1
    /\ objects_in_memory = 1

\* C28: with always_spill false and fewer than max_objects_in_ram records
\* added, the iteration touches no disk: from its first step to its end the
\* Sorter has no spill file and no merge was opened, and what it has yielded
\* when it ends are the added records in stably sorted order.
C28_InMemoryIterationWritesNoFile ==
    (~always_spill /\ Len(added) < max_objects_in_ram /\ IterationStarted) =>
        /\ paths = <<>>
        /\ fds = <<>>
        /\ fs = <<>>
        /\ opened = <<>>
        /\ phase \in {"memory", "done"}
        /\ phase = "done" => out = ReferenceSort(added)

\* two records added in descending key order to a Sorter with room for
\* three that does not always spill, and the iteration has ended
C28_Witness ==
    /\ ~always_spill
    /\ max_objects_in_ram = 3
    /\ Len(added) = 2
    /\ key_func(added[2]) < key_func(added[1])
    /\ phase = "done"
    /\ Len(out) = 2

\* the cursors of the merge that still hold a record that was not yielded
WithData == {i \in 1..Len(iterators) : iterators[i].next_value # <<>>}

\* C29: between the steps of the merge the heap holds exactly the cursors
\* that still have data, the one with the smallest peeked key first; the
\* record yielded last has a key not greater than the peeked key of any
\* cursor that still has data; and the merge has stopped only when no cursor
\* had data left, that is when every added record was yielded.
C29_HeapHoldsCursorsWithData ==
    /\ phase = "merging" =>
         /\ {heap[k] : k \in 1..Len(heap)} = WithData
         /\ Len(heap) = Cardinality(WithData)
         /\ \A i \in WithData :
              /\ ~(iterators[i].next_key[1] < iterators[heap[1]].next_key[1])
              /\ out # <<>> =>
                   ~(iterators[i].next_key[1] < key_func(out[Len(out)]))
    /\ (phase = "done" /\ opened # <<>>) => Len(out) = Len(added)

\* the index of the first element of input i that is out of order: the first
\* whose key is less than the key of the element before it (0: none)
FirstViolation(i) ==
    LET bad == {j \in 2..Len(inputs[i]) :
                  KeyLess(sort_key(inputs[i][j], by_barcodes, OverlapContigs),
                          sort_key(inputs[i][j - 1], by_barcodes, OverlapContigs),
                          by_barcodes)}
    IN  IF bad = {} THEN 0 ELSE CHOOSE j \in bad : \A q \in bad : j <= q

\* how many records of input i the clusters returned so far hold
ReturnedCount(i) == Len(Returned(i, Len(clusters)))

\* C30: a next() call raises exactly when it pulls, from some input, that
\* input's first out-of-order element j (j >= 2), and it pulls it while it
\* consumes element j - 1: element j - 1 was the input's head before the call
\* or was reached by it, every element before the call's head had been
\* returned, and after the call element j - 1 is still held as the head; the
\* call returns no cluster, so element j - 1 and what the call had gathered
\* with it stay unreturned although the elements up to j - 1 are in order.
C30_RaisesWhileConsumingPredecessor ==
    [][/\ (ophase' = "error") <=>
              \E i \in 1..Len(inputs) :
                  FirstViolation(i) # 0 /\ pulled'[i] = FirstViolation(i)
       /\ ophase' = "error" =>
            /\ clusters' = clusters
            /\ \E i \in 1..Len(inputs) :
                 LET j == FirstViolation(i)
                 IN  /\ j >= 2
                     /\ pulled[i] \in 1..(j - 1)
                     /\ pulled'[i] = j
                     /\ peek'[i] = <<inputs[i][j - 1]>>
                     /\ ReturnedCount(i) = pulled[i] - 1
                     /\ IsSorted(SubSeq(inputs[i], 1, j - 1), by_barcodes,
                                 OverlapContigs)]_vars

\* a call has raised at the first out-of-order element of one input after
\* it had taken a record of the other input, which no cluster returned
C30_Witness ==
    /\ ophase = "error"
    /\ \E i, k \in 1..Len(inputs) :
         /\ i # k
         /\ FirstViolation(i) # 0
         /\ pulled[i] = FirstViolation(i)
         /\ (IF peek[k] = <<>> THEN pulled[k] ELSE pulled[k] - 1) > ReturnedCount(k)

====
